---------------------------- MODULE Spec2Model ----------------------------
(***************************************************************************)
(* HVAC energy analysis pipeline (energy-analysis/analyze-hvac.js).        *)
(*                                                                         *)
(* Conventions of the model                                                *)
(*   - a calendar date 'YYYY-MM-DD' is its day number counted from         *)
(*     START_DATE = '2025-11-01' = 1, so that the string order of the ISO  *)
(*     dates is the integer order;                                         *)
(*   - an interval timestamp is a record [date, slot]: date is what        *)
(*     timestamp.split('T')[0] yields, slot the time of day;               *)
(*   - energies are integers in Wh; a quantity the code holds in kWh       *)
(*     (x / 1000) is held here in Wh, so 25 kWh is 25000;                  *)
(*   - an optional JSON field is a record field that may be missing from   *)
(*     the record's DOMAIN.                                                *)
(***************************************************************************)
EXTENDS Integers, Sequences, FiniteSets, TLC

VARIABLES
    pc,               \* position of the run
    queryIdx,         \* collectTeslaDaily: index of the range query awaited
    byDate,           \* collectTeslaDaily: Map date -> daily totals
    seenTimestamps,   \* collectTeslaDaily: Set of consumed timestamps
    firstSeen,        \* history: timestamp -> the interval that the telemetry
                      \* source returned first for it (in window)
    repeated,         \* history: a consumed timestamp was returned again
    teslaDaily,       \* result of collectTeslaDaily (sorted by date)
    weatherDaily,     \* result of collectWeatherData
    historySaunaDays, \* dates of history.json with a sauna device (a Set)
    classifiedDays,   \* the list classifyDays returns and later stages mutate
    suspectDays,      \* detectSaunaFromTesla: the candidate days, in order
    suspectIdx,       \* detectSaunaFromTesla: index of the candidate awaited
    fetched,          \* history: date -> sub-daily series received for it
    model,            \* result of buildModel (status "none" before, "null" if refused)
    anomalyResult,    \* result of detectAnomalies (status "none" before)
    exitCode,         \* process exit code ("running" while the run lasts)
    topAnomalies,     \* drillDownAnomalies: the anomalies to drill into
    drillIdx,         \* drillDownAnomalies: index of the anomaly awaited
    drilldowns,       \* drillDownAnomalies: the list it returns
    written,          \* names of the output files written by main
    cachedRun,        \* existsSync(CACHE_PATH) && process.argv.includes('--cached')
    calls,            \* history: the external calls started, in order
    pending,          \* indices (in calls) of the promises not yet settled
    lastOutcome,      \* history: how the call the last step awaited ended
    firstRun,         \* history: results of an earlier run on the same cache
    call,             \* one external call followed on its own: its local state
    input,            \* argument of a function exercised on its own
    output            \* its result

vars == <<pc, queryIdx, byDate, seenTimestamps, firstSeen, repeated, teslaDaily,
          weatherDaily, historySaunaDays, classifiedDays, suspectDays,
          suspectIdx, fetched, model, anomalyResult, topAnomalies, drillIdx,
          drilldowns, exitCode, written, cachedRun, calls, pending, lastOutcome,
          firstRun, call, input, output>>

\* Variables of the stages after collection.
laterVars == <<weatherDaily, historySaunaDays, classifiedDays, suspectDays,
               suspectIdx, fetched, model, anomalyResult, topAnomalies, drillIdx,
               drilldowns, exitCode, written, input, output>>

\* The external calls of a run.
callVars == <<calls, pending, lastOutcome>>

\* What no step of a single run changes.
fixedVars == <<cachedRun, firstRun, call>>

\* Variables of drillDownAnomalies.
drillVars == <<topAnomalies, drillIdx, drilldowns>>

\* Variables of collectTeslaDaily.
collectVars == <<queryIdx, byDate, seenTimestamps, firstSeen, repeated>>

-----------------------------------------------------------------------------
(* Bounds of the model *)

MaxEntries == 2       \* intervals in one range-query response
MaxSlots == 2         \* distinct times of day on the first date of the window
MaxDays == 15         \* days in the list that collectTeslaDaily returned
TempSpan == 15        \* degrees F below the lowest and above the highest segment
                      \* boundary that a day's minimum temperature ranges over
MaxResiduals == 3     \* residuals of a list that vary freely
MaxAnomalies == 6     \* anomalies in a list handed to drillDownAnomalies
MaxChunks == 2        \* 'data' events of one weather response
MaxAway == 4          \* away days in a list handed to benchmarkPassiveHouse
MaxIntervals == 4     \* intervals in a series handed to findConsecutiveRuns

-----------------------------------------------------------------------------
(* Configuration (analyze-hvac.js, lines 42-52) *)

START_DATE == 1             \* '2025-11-01'
END_DATE == 100             \* '2026-02-08'
OUT_OF_TOWN_START == 43     \* '2025-12-13'
OUT_OF_TOWN_END == 63       \* '2026-01-02'
HOME_DURING_VACATION == 57  \* '2025-12-27'

\* The range queries of collectTeslaDaily, in the order they are issued.
queries == << "November 2025", "December 2025", "January 2026",
              "February 1 2026", "February 2-8 2026" >>

-----------------------------------------------------------------------------
(* Generic helpers *)

RECURSIVE SumOver(_, _)
SumOver(S, f) ==
    IF S = {} THEN 0
    ELSE LET x == CHOOSE y \in S : TRUE
         IN  f[x] + SumOver(S \ {x}, f)

\* entry.field || 0
OrZero(entry, field) ==
    IF field \in DOMAIN entry THEN entry[field] ELSE 0

\* The elements of a set of integers in ascending order.
RECURSIVE SortedSeq(_)
SortedSeq(S) ==
    IF S = {} THEN << >>
    ELSE LET m == CHOOSE x \in S : \A y \in S : x <= y
         IN  << m >> \o SortedSeq(S \ {m})

-----------------------------------------------------------------------------
(* Exact arithmetic for the numeric code.  A JavaScript number that the code
   derives by +, -, *, / from integer inputs is held as the fraction
   << numerator, denominator >> in lowest terms with a positive denominator;
   rounding of the double-precision operations is not modelled. *)

Abs(x) == IF x < 0 THEN -x ELSE x

RECURSIVE Gcd(_, _)
Gcd(a, b) == IF b = 0 THEN a ELSE Gcd(b, a % b)

Norm(n, d) ==
    LET g == Gcd(Abs(n), Abs(d))
        s == IF d < 0 THEN -1 ELSE 1
    IN  IF n = 0 THEN << 0, 1 >> ELSE << s * (n \div g), s * (d \div g) >>

Rat(n) == << n, 1 >>

\* a + b, with the whole parts added apart from the fractional parts so that
\* no intermediate product exceeds the common denominator.
RAdd(a, b) ==
    LET g == Gcd(a[2], b[2])
        l == (a[2] \div g) * b[2]
        whole == (a[1] \div a[2]) + (b[1] \div b[2])
        frac == Norm((a[1] % a[2]) * (l \div a[2]) + (b[1] % b[2]) * (l \div b[2]), l)
    IN  << whole * frac[2] + frac[1], frac[2] >>

RNeg(a) == << -a[1], a[2] >>

RSub(a, b) == RAdd(a, RNeg(b))

RMul(a, b) ==
    IF a[1] = 0 \/ b[1] = 0 THEN << 0, 1 >>
    ELSE LET g1 == Gcd(Abs(a[1]), b[2])
             g2 == Gcd(Abs(b[1]), a[2])
         IN  << (a[1] \div g1) * (b[1] \div g2), (a[2] \div g2) * (b[2] \div g1) >>

\* a / b for b # 0
RDiv(a, b) ==
    RMul(a, IF b[1] < 0 THEN << -b[2], -b[1] >> ELSE << b[2], b[1] >>)

RAbs(a) == << Abs(a[1]), a[2] >>

\* a1/a2 < b1/b2 for a1, b1 >= 0 and a2, b2 > 0, by comparing the whole parts
\* and then the reciprocals of the fractional parts (no products are formed).
RECURSIVE PosLess(_, _, _, _)
PosLess(a1, a2, b1, b2) ==
    LET qa == a1 \div a2
        qb == b1 \div b2
        ra == a1 % a2
        rb == b1 % b2
    IN  IF qa # qb THEN qa < qb
        ELSE IF rb = 0 THEN FALSE
        ELSE IF ra = 0 THEN TRUE
        ELSE PosLess(b2, rb, a2, ra)

RLess(a, b) ==
    IF a[1] < 0 /\ b[1] >= 0 THEN TRUE
    ELSE IF a[1] >= 0 /\ b[1] < 0 THEN FALSE
    ELSE IF a[1] >= 0 THEN PosLess(a[1], a[2], b[1], b[2])
    ELSE PosLess(-b[1], b[2], -a[1], a[2])

RSign(a) == IF a[1] > 0 THEN 1 ELSE IF a[1] < 0 THEN -1 ELSE 0

RSquare(a) == RMul(a, a)

\* The element of a one-element set.  Only({ F(x) : x \in { e } }) is F(e)
\* with e computed once, however often F refers to it.
Only(S) == CHOOSE x \in S : TRUE

\* An array: the function f with every element computed once, when it is built.
Array(f) == f @@ << >>

\* Sum of f[i] over i = 1..n, accumulated from the left as reduce does.
RECURSIVE RSumFrom(_, _, _, _)
RSumFrom(f, i, n, acc) ==
    IF i > n THEN acc
    ELSE Only({ RSumFrom(f, i + 1, n, next) : next \in { RAdd(acc, f[i]) } })

RSum(f, n) == RSumFrom(f, 1, n, << 0, 1 >>)

-----------------------------------------------------------------------------
(* The telemetry source, as far as collectTeslaDaily reads it *)

\* Timestamps inside the window: the last date, and times of the first date.
WindowTimestamps ==
    { [date |-> END_DATE, slot |-> 1] }
    \cup { [date |-> START_DATE, slot |-> s] : s \in 1..MaxSlots }

\* Timestamps of the day before the window and of the day after it.
OutsideTimestamps ==
    { [date |-> START_DATE - 1, slot |-> 1], [date |-> END_DATE + 1, slot |-> 1] }

IntervalEnergies == { 300, 700 }

\* One entry of result.time_series. home_energy may be missing; an entry
\* without a timestamp makes entry.timestamp.split throw.
TimeSeriesEntries ==
    { [timestamp |-> t, home_energy |-> e] : t \in WindowTimestamps, e \in IntervalEnergies }
    \cup { [timestamp |-> t, home_energy |-> 300] : t \in OutsideTimestamps }
    \cup { [timestamp |-> [date |-> START_DATE, slot |-> 1]], [home_energy |-> 300] }

RECURSIVE SeqsUpTo(_, _)
SeqsUpTo(S, n) ==
    IF n = 0 THEN { << >> }
    ELSE LET shorter == SeqsUpTo(S, n - 1)
         IN  shorter \cup { Append(s, x) : s \in { t \in shorter : Len(t) = n - 1 }, x \in S }

\* What awaiting callTeslaMCP can yield: a rejection (process error, timeout,
\* unparseable or empty content), or a parsed object with or without time_series.
TeslaResponses ==
    { [ok |-> FALSE], [ok |-> TRUE] }
    \cup { [ok |-> TRUE, time_series |-> s] : s \in SeqsUpTo(TimeSeriesEntries, MaxEntries) }

-----------------------------------------------------------------------------
(* External calls.  callTeslaMCP and httpGet return a promise; every call
   site awaits the promise before its function goes on. *)

\* The promise of a call is created: the call joins those started.
Issue(cs, kind, target) == Append(cs, [kind |-> kind, target |-> target])

\* await: the code after it runs when promise i has settled.  A caller that
\* went on without awaiting would leave it pending (AfterAwaitUnsettled).
AfterAwaitUnsettled(p, i) == p

AfterAwait(p, i) == p \ {i}

\* How the awaited promise ended, for a response of the telemetry source.
Outcome(resp) == IF resp.ok THEN "resolved" ELSE "rejected"

-----------------------------------------------------------------------------
(* Step 1: collectTeslaDaily *)

\* byDate.set(date, {...}).  The solar, grid and battery totals of a day are
\* accumulated like homeEnergy and are not held.
NewDay(date) ==
    [date |-> date, homeEnergy |-> 0, intervalCount |-> 0]

\* The body of the inner loop for one entry, on the pair (byDate, seen).
\* "thrown" records that entry.timestamp.split threw, which leaves the loop.
AddEntryNoDedup(acc, entry) ==
    IF acc.thrown THEN acc
    ELSE IF "timestamp" \notin DOMAIN entry THEN [acc EXCEPT !.thrown = TRUE]
    ELSE LET date == entry.timestamp.date IN
         IF date < START_DATE \/ date > END_DATE THEN acc
         ELSE LET day == IF date \in DOMAIN acc.byDate THEN acc.byDate[date] ELSE NewDay(date)
                  upd == [day EXCEPT !.homeEnergy = @ + OrZero(entry, "home_energy"),
                                     !.intervalCount = @ + 1]
              IN  [acc EXCEPT !.seen = @ \cup {entry.timestamp},
                              !.byDate = [d \in DOMAIN acc.byDate \cup {date} |->
                                             IF d = date THEN upd ELSE acc.byDate[d]]]

AddEntry(acc, entry) ==
    IF acc.thrown THEN acc
    ELSE IF "timestamp" \notin DOMAIN entry THEN [acc EXCEPT !.thrown = TRUE]
    ELSE LET date == entry.timestamp.date IN
         IF date < START_DATE \/ date > END_DATE THEN acc
         ELSE IF entry.timestamp \in acc.seen THEN acc
         ELSE LET day == IF date \in DOMAIN acc.byDate THEN acc.byDate[date] ELSE NewDay(date)
                  upd == [day EXCEPT !.homeEnergy = @ + OrZero(entry, "home_energy"),
                                     !.intervalCount = @ + 1]
              IN  [acc EXCEPT !.seen = @ \cup {entry.timestamp},
                              !.byDate = [d \in DOMAIN acc.byDate \cup {date} |->
                                             IF d = date THEN upd ELSE acc.byDate[d]]]

RECURSIVE AggregateEntries(_, _)
AggregateEntries(acc, series) ==
    IF series = << >> THEN acc
    ELSE AggregateEntries(AddEntry(acc, Head(series)), Tail(series))

\* try { result = await callTeslaMCP(...); if (result.time_series) {for ...} } catch {}
\* ProcessResponseDiscarding drops the days collected so far when the call
\* is rejected.
ProcessResponseDiscarding(bd, seen, resp) ==
    IF resp.ok /\ "time_series" \in DOMAIN resp
    THEN AggregateEntries([byDate |-> bd, seen |-> seen, thrown |-> FALSE], resp.time_series)
    ELSE IF resp.ok THEN [byDate |-> bd, seen |-> seen, thrown |-> FALSE]
    ELSE [byDate |-> << >>, seen |-> {}, thrown |-> FALSE]

ProcessResponse(bd, seen, resp) ==
    IF resp.ok /\ "time_series" \in DOMAIN resp
    THEN AggregateEntries([byDate |-> bd, seen |-> seen, thrown |-> FALSE], resp.time_series)
    ELSE [byDate |-> bd, seen |-> seen, thrown |-> FALSE]

\* [...byDate.values()].sort((a, b) => a.date.localeCompare(b.date))
SortByDate(bd) ==
    LET dates == SortedSeq(DOMAIN bd)
    IN  [i \in 1..Len(dates) |-> bd[dates[i]]]

\* History: the first in-window interval returned for each timestamp, up to
\* the entry (if any) at which the response's processing stops.
RECURSIVE RecordFirst(_, _)
RecordFirst(fs, series) ==
    IF series = << >> THEN fs
    ELSE LET e == Head(series) IN
         IF "timestamp" \notin DOMAIN e THEN fs
         ELSE IF e.timestamp.date < START_DATE \/ e.timestamp.date > END_DATE
                 \/ e.timestamp \in DOMAIN fs
              THEN RecordFirst(fs, Tail(series))
              ELSE RecordFirst([t \in DOMAIN fs \cup {e.timestamp} |->
                                   IF t = e.timestamp THEN OrZero(e, "home_energy") ELSE fs[t]],
                               Tail(series))

\* History: the loop reaches an entry whose timestamp it has consumed before
\* (skipped++), given the timestamps consumed when the series starts.
RECURSIVE ReachesRepeat(_, _)
ReachesRepeat(seen, series) ==
    IF series = << >> THEN FALSE
    ELSE LET e == Head(series) IN
         IF "timestamp" \notin DOMAIN e THEN FALSE
         ELSE IF e.timestamp.date < START_DATE \/ e.timestamp.date > END_DATE
              THEN ReachesRepeat(seen, Tail(series))
              ELSE e.timestamp \in seen \/ ReachesRepeat(seen \cup {e.timestamp}, Tail(series))

\* One iteration of the loop over queries: the awaited call and what follows
\* it up to the next await; after the last query, the sort and the return.
FetchQueryFrom(responses) ==
    /\ pc = "collect"
    /\ \E resp \in responses :
          LET r == ProcessResponse(byDate, seenTimestamps, resp) IN
          /\ byDate' = r.byDate
          /\ seenTimestamps' = r.seen
          /\ firstSeen' = IF resp.ok /\ "time_series" \in DOMAIN resp
                          THEN RecordFirst(firstSeen, resp.time_series)
                          ELSE firstSeen
          /\ repeated' = (repeated \/ (resp.ok /\ "time_series" \in DOMAIN resp
                                         /\ ReachesRepeat(seenTimestamps, resp.time_series)))
          /\ lastOutcome' = Outcome(resp)
          /\ IF queryIdx = Len(queries)
             THEN /\ pc' = "collected"
                  /\ teslaDaily' = SortByDate(r.byDate)
                  /\ queryIdx' = queryIdx
                  /\ calls' = calls
                  /\ pending' = AfterAwait(pending, Len(calls))
             ELSE /\ queryIdx' = queryIdx + 1
                  /\ calls' = Issue(calls, "range", queries[queryIdx + 1])
                  /\ pending' = AfterAwait(pending, Len(calls)) \cup { Len(calls) + 1 }
                  /\ UNCHANGED <<pc, teslaDaily>>
    /\ UNCHANGED laterVars
    /\ UNCHANGED fixedVars

\* The telemetry source returns single intervals.
FetchQuery == FetchQueryFrom(TeslaResponses)

\* The later stages have not begun.
NotStarted ==
    /\ weatherDaily = << >>
    /\ historySaunaDays = {}
    /\ classifiedDays = << >>
    /\ suspectDays = << >>
    /\ suspectIdx = 1
    /\ fetched = << >>
    /\ model = [status |-> "none"]
    /\ anomalyResult = [status |-> "none"]
    /\ topAnomalies = << >>
    /\ drillIdx = 1
    /\ drilldowns = << >>
    /\ exitCode = "running"
    /\ written = {}
    /\ firstRun = [status |-> "none"]
    /\ call = [fn |-> "none"]
    /\ input = "none"
    /\ output = "none"

\* collectTeslaDaily at its first await: the first range query is under way.
InitCollect ==
    /\ pc = "collect"
    /\ queryIdx = 1
    /\ byDate = << >>
    /\ seenTimestamps = {}
    /\ firstSeen = << >>
    /\ repeated = FALSE
    /\ teslaDaily = << >>
    /\ cachedRun = FALSE
    /\ calls = Issue(<< >>, "range", queries[1])
    /\ pending = { 1 }
    /\ lastOutcome = "none"
    /\ NotStarted

NextCollect == FetchQuery

SpecCollect == InitCollect /\ [][NextCollect]_vars

-----------------------------------------------------------------------------
(* C1 *)

DatesSeen == { t.date : t \in DOMAIN firstSeen }

TimestampsOf(date) == { t \in DOMAIN firstSeen : t.date = date }

\* C1: each distinct in-window timestamp the source has returned counts once:
\* at every query boundary and in the returned list, a day exists exactly for
\* the dates of those timestamps, its homeEnergy is the sum of their
\* home_energy and its intervalCount is their number.
C1_DedupTotals ==
    /\ DOMAIN byDate = DatesSeen
    /\ \A d \in DOMAIN byDate :
          /\ byDate[d].homeEnergy
                = SumOver(TimestampsOf(d), firstSeen)
          /\ byDate[d].intervalCount = Cardinality(TimestampsOf(d))
    /\ pc = "collected" =>
          /\ Len(teslaDaily) = Cardinality(DatesSeen)
          /\ \A i \in 1..Len(teslaDaily) : teslaDaily[i] = byDate[teslaDaily[i].date]
          /\ \A i \in 1..(Len(teslaDaily) - 1) : teslaDaily[i].date < teslaDaily[i + 1].date

\* The collection has ended; a timestamp was returned again after it had
\* been consumed, and a day has two intervals and energy.
C1_Witness ==
    /\ pc = "collected"
    /\ \E d \in DOMAIN byDate :
          /\ byDate[d].intervalCount = 2
          /\ byDate[d].homeEnergy > 0
    /\ repeated

-----------------------------------------------------------------------------
(* Step 4: regression (fitLinearRegression, solveLinearSystem) *)

\* The getters of the feature lists of buildModel, by feature name.
FeatureValue(name, d) ==
    CASE name = "tempMin" -> Rat(d.tempMin)
      [] name = "windMax" -> Rat(OrZero(d, "windMax"))
      [] name = "windGustMax" -> Rat(OrZero(d, "windGustMax"))
      [] name = "thermalMassLag" -> d.thermalMassLag
      [] name = "hdd" -> Rat(d.heatingDegreeDays)
      [] name = "priorDayTempMin" -> Rat(d.priorDayTempMin)
      [] name = "isWeekend" -> Rat(d.isWeekend)

basicFeatures == << "tempMin", "windMax" >>
extendedFeatures == << "tempMin", "windMax", "thermalMassLag" >>
hddFeatures == << "hdd", "windMax" >>
priorDayFeatures == << "tempMin", "windGustMax", "priorDayTempMin" >>
weekendFeatures == << "tempMin", "windGustMax", "priorDayTempMin", "isWeekend" >>

\* Math.abs(x) < 1e-10.  A nonzero fraction of the model has a denominator
\* below 2^31, hence a magnitude above 1e-10: the test is x = 0.
BelowEpsilon(x) == x[1] = 0

\* The row of partial pivoting: the first row from col on whose entry in
\* column col has the largest magnitude (a later row wins only if larger).
RECURSIVE PivotRow(_, _, _, _, _)
PivotRow(M, col, row, maxRow, n) ==
    IF row > n THEN maxRow
    ELSE PivotRow(M, col, row + 1,
                  IF RLess(RAbs(M[maxRow][col]), RAbs(M[row][col])) THEN row ELSE maxRow, n)

SwapRows(M, i, j) ==
    Array([r \in DOMAIN M |-> IF r = i THEN M[j] ELSE IF r = j THEN M[i] ELSE M[r]])

\* for row > col: M[row][j] -= (M[row][col] / M[col][col]) * M[col][j], j >= col
EliminateBelow(M, col, n) ==
    Array([r \in 1..n |->
        IF r <= col THEN M[r]
        ELSE LET factor == RDiv(M[r][col], M[col][col])
             IN  Array([j \in 1..(n + 1) |->
                     IF j < col THEN M[r][j]
                     ELSE RSub(M[r][j], RMul(factor, M[col][j]))])])

\* The forward pass from column col on: [ok |-> FALSE] when a pivot is
\* below epsilon (the function returns null), else the triangular matrix.
RECURSIVE ForwardPass(_, _, _)
ForwardPass(M, col, n) ==
    IF col > n THEN [ok |-> TRUE, M |-> M]
    ELSE LET S == SwapRows(M, col, PivotRow(M, col, col + 1, col, n))
         IN  IF BelowEpsilon(S[col][col]) THEN [ok |-> FALSE]
             ELSE ForwardPass(EliminateBelow(S, col, n), col + 1, n)

\* x[i] = (M[i][n] - sum_{j > i} M[i][j] * x[j]) / M[i][i], for i = n down to 1;
\* x holds the components already computed, x[i+1..n], so i = n - Len(x).
RECURSIVE BackSubstitute(_, _, _)
BackSubstitute(M, n, x) ==
    IF Len(x) = n THEN x
    ELSE LET i == n - Len(x)
             known == Array([j \in 1..(n - i) |-> RMul(M[i][i + j], x[j])])
             xi == RDiv(RSub(M[i][n + 1], RSum(known, n - i)), M[i][i])
         IN  BackSubstitute(M, n, << xi >> \o x)

\* Gaussian elimination with partial pivoting on the n x n system A x = b.
solveLinearSystem(A, b, n) ==
    LET M == Array([i \in 1..n |->
                 Array([j \in 1..(n + 1) |-> IF j <= n THEN A[i][j] ELSE b[i]])])
        fwd == ForwardPass(M, 1, n)
    IN  IF fwd.ok THEN [ok |-> TRUE, x |-> BackSubstitute(fwd.M, n, << >>)]
        ELSE [ok |-> FALSE]

\* { coefficients: {}, rSquared: 0, a: 0, b: 0, c: 0 }
DegenerateFit ==
    [coefficients |-> << >>, rSquared |-> Rat(0), a |-> Rat(0), b |-> Rat(0), c |-> Rat(0)]

\* adjustedKwh of a day as a number of kWh (the day holds it in Wh).
Kwh(wh) == Norm(wh, 1000)

fitLinearRegression(days, features) ==
    LET n == Len(days)
        p == Len(features) + 1
        X == Array([i \in 1..n |-> Array([j \in 1..p |->
                 IF j < p THEN FeatureValue(features[j], days[i]) ELSE Rat(1)])])
        y == Array([i \in 1..n |-> Kwh(days[i].adjustedKwh)])
        Xty == Array([j \in 1..p |-> RSum([i \in 1..n |-> RMul(X[i][j], y[i])], n)])
        XtX == Array([j \in 1..p |-> Array([k \in 1..p |->
                   RSum([i \in 1..n |-> RMul(X[i][j], X[i][k])], n)])])
        sol == solveLinearSystem(XtX, Xty, p)
    IN  IF n < p + 1 THEN DegenerateFit
        ELSE IF ~sol.ok THEN DegenerateFit
        ELSE LET beta == sol.x
                 yMean == RDiv(RSum(y, n), Rat(n))
                 predicted == Array([i \in 1..n |->
                                  RSum([j \in 1..p |-> RMul(beta[j], X[i][j])], p)])
                 ssRes == RSum([i \in 1..n |-> RSquare(RSub(y[i], predicted[i]))], n)
                 ssTot == RSum([i \in 1..n |-> RSquare(RSub(y[i], yMean))], n)
                 rSquared == IF RSign(ssTot) > 0
                             THEN RSub(Rat(1), RDiv(ssRes, ssTot)) ELSE Rat(0)
             IN  [coefficients |->
                      [name \in { features[j] : j \in 1..(p - 1) } \cup { "intercept" } |->
                          IF name = "intercept" THEN beta[p]
                          ELSE beta[CHOOSE j \in 1..(p - 1) : features[j] = name]],
                  rSquared |-> rSquared,
                  a |-> beta[1],
                  b |-> IF p >= 2 THEN beta[2] ELSE Rat(0),
                  c |-> beta[p]]

-----------------------------------------------------------------------------
(* Step 3: classifyDays *)

SAUNA_ESTIMATE == 25000     \* saunaEstimateKwh = 25, in Wh
HDD_BASE == 65              \* 65 - tempMean
DEFAULT_TEMP_MEAN == 50     \* weather.tempMean || 50

Max(a, b) == IF a > b THEN a ELSE b

\* x || fallback for a numeric field: the fallback replaces a missing
\* field and a field that holds 0.
OrElse(rec, field, fallback) ==
    IF field \in DOMAIN rec /\ rec[field] # 0 THEN rec[field] ELSE fallback

isOutOfTown(date) ==
    IF date = HOME_DURING_VACATION THEN FALSE
    ELSE date >= OUT_OF_TOWN_START /\ date <= OUT_OF_TOWN_END

\* weatherMap.get(date) || {}: the Map keeps the last record set for a date.
WeatherFor(weather, date) ==
    LET at == { i \in 1..Len(weather) : weather[i].date = date }
    IN  IF at = {} THEN << >>
        ELSE weather[CHOOSE i \in at : \A j \in at : j <= i]

\* The callback of teslaDaily.map; the day type that ignores the override date
\* is ClassifyOneNoOverride.
ClassifyOneNoOverride(day, weather, history) ==
    LET w == WeatherFor(weather, day.date)
        type == IF day.date >= OUT_OF_TOWN_START /\ day.date <= OUT_OF_TOWN_END
                THEN "out-of-town"
                ELSE IF day.date \in history THEN "sauna" ELSE "normal"
        est == IF type = "sauna" THEN SAUNA_ESTIMATE ELSE 0
    IN  [hdd |-> Max(0, HDD_BASE - OrElse(w, "tempMean", DEFAULT_TEMP_MEAN))]
        @@ w
        @@ [date |-> day.date, type |-> type, homeKwh |-> day.homeEnergy,
            saunaEstimateKwh |-> est, adjustedKwh |-> day.homeEnergy - est]

ClassifyOne(day, weather, history) ==
    LET w == WeatherFor(weather, day.date)
        type == IF isOutOfTown(day.date) THEN "out-of-town"
                ELSE IF day.date \in history THEN "sauna" ELSE "normal"
        est == IF type = "sauna" THEN SAUNA_ESTIMATE ELSE 0
    IN  [hdd |-> Max(0, HDD_BASE - OrElse(w, "tempMean", DEFAULT_TEMP_MEAN))]
        @@ w
        @@ [date |-> day.date, type |-> type, homeKwh |-> day.homeEnergy,
            saunaEstimateKwh |-> est, adjustedKwh |-> day.homeEnergy - est]

classifyDays(tesla, weather, history) ==
    [i \in 1..Len(tesla) |-> ClassifyOne(tesla[i], weather, history)]

\* main: const classified = classifyDays(teslaDaily, weatherDaily)
ClassifyDays ==
    /\ pc = "classify"
    /\ classifiedDays' = classifyDays(teslaDaily, weatherDaily, historySaunaDays)
    /\ pc' = "detect"
    /\ lastOutcome' = "none"
    /\ UNCHANGED <<teslaDaily, weatherDaily, historySaunaDays, suspectDays, suspectIdx,
                   fetched, model, anomalyResult, exitCode, written, input, output>>
    /\ UNCHANGED <<calls, pending>>
    /\ UNCHANGED collectVars
    /\ UNCHANGED drillVars
    /\ UNCHANGED fixedVars

-----------------------------------------------------------------------------
(* Step 3b: detectSaunaFromTesla *)

MIN_SUSPECT_KWH == 50       \* Math.max(threshold, 50)
HIGH_POWER_WH == 1000       \* e.home_energy > 1000
MIN_RUN_LENGTH == 10        \* consecutiveRuns.maxLength >= 10

\* xs.reduce((a, b) => a + b, 0) / xs.length
Mean(xs) == RDiv(RSum(xs, Len(xs)), Rat(Len(xs)))

\* xs.reduce((a, b) => a + (b - mean) ** 2, 0) / xs.length: the square of
\* the standard deviation.
Variance(xs, mean) ==
    RDiv(RSum(Array([i \in 1..Len(xs) |-> RSquare(RSub(xs[i], mean))]), Len(xs)),
         Rat(Len(xs)))

\* x > mean + 1.5 * Math.sqrt(variance).  The square root is not a fraction;
\* both sides of x - mean > 1.5 * sqrt(variance) are compared by their squares.
AboveThreshold(x, mean, variance) ==
    LET dev == RSub(x, mean)
    IN  RSign(dev) > 0 /\ RLess(RMul(<< 9, 4 >>, variance), RSquare(dev))

IsNormal(d) == d.type = "normal"

\* The candidates taken from the days of every type.
SuspectsOfAnyType(days) ==
    LET normalDays == SelectSeq(days, IsNormal)
        consumptions == Array([i \in 1..Len(normalDays) |-> Kwh(normalDays[i].homeKwh)])
        mean == Mean(consumptions)
        variance == Variance(consumptions, mean)
        IsSuspect(d) == /\ AboveThreshold(Kwh(d.homeKwh), mean, variance)
                        /\ RLess(Rat(MIN_SUSPECT_KWH), Kwh(d.homeKwh))
    IN  IF Len(normalDays) = 0 THEN << >> ELSE SelectSeq(days, IsSuspect)

\* normalDays.filter(d => d.homeKwh > Math.max(threshold, 50))
SuspectsOf(days) ==
    LET normalDays == SelectSeq(days, IsNormal)
        consumptions == Array([i \in 1..Len(normalDays) |-> Kwh(normalDays[i].homeKwh)])
        mean == Mean(consumptions)
        variance == Variance(consumptions, mean)
        IsSuspect(d) == /\ AboveThreshold(Kwh(d.homeKwh), mean, variance)
                        /\ RLess(Rat(MIN_SUSPECT_KWH), Kwh(d.homeKwh))
    IN  IF Len(normalDays) = 0 THEN << >> ELSE SelectSeq(normalDays, IsSuspect)

\* The loop of findConsecutiveRuns from its state acc over the entries left.
RECURSIVE RunLoop(_, _, _)
RunLoop(acc, highSet, entries) ==
    IF entries = << >> THEN [maxLength |-> acc.maxLength, totalWh |-> acc.totalWh]
    ELSE LET entry == Head(entries)
             next ==
                 IF entry.timestamp \in highSet
                 THEN LET len == acc.currentLength + 1
                          wh == acc.runWh + entry.home_energy
                      IN  IF len > acc.maxLength
                          THEN [maxLength |-> len, currentLength |-> len,
                                totalWh |-> wh, runWh |-> wh]
                          ELSE [acc EXCEPT !.currentLength = len, !.runWh = wh]
                 ELSE [acc EXCEPT !.currentLength = 0, !.runWh = 0]
         IN  RunLoop(next, highSet, Tail(entries))

findConsecutiveRuns(highPowerIntervals, allIntervals) ==
    RunLoop([maxLength |-> 0, currentLength |-> 0, totalWh |-> 0, runWh |-> 0],
            { highPowerIntervals[i].timestamp : i \in 1..Len(highPowerIntervals) },
            allIntervals)

\* The test of the filter with >= in place of >.
IsHighPowerInclusive(e) == e.home_energy >= HIGH_POWER_WH

IsHighPower(e) == e.home_energy > HIGH_POWER_WH

\* result.time_series.filter(e => e.home_energy > 1000)
HighPowerIntervals(series) == SelectSeq(series, IsHighPower)

\* The body of "if (result.time_series)" for one candidate: the list with
\* the candidate's day updated when a run of at least 10 intervals is found.
\* ApplySeriesNoAdjust leaves adjustedKwh as it was.
ApplySeriesNoAdjust(days, date, series) ==
    LET runs == findConsecutiveRuns(HighPowerIntervals(series), series)
        at == { i \in 1..Len(days) : days[i].date = date }
    IN  IF runs.maxLength >= MIN_RUN_LENGTH /\ at # {}
        THEN LET idx == CHOOSE i \in at : \A j \in at : i <= j
                 upd == [saunaDetected |-> TRUE]
                        @@ [days[idx] EXCEPT !.type = "sauna",
                                             !.saunaEstimateKwh = runs.totalWh]
             IN  [days EXCEPT ![idx] = upd]
        ELSE days

\* ApplySeriesAppend adds a record for the day instead of updating it.
ApplySeriesAppend(days, date, series) ==
    LET runs == findConsecutiveRuns(HighPowerIntervals(series), series)
        at == { i \in 1..Len(days) : days[i].date = date }
    IN  IF runs.maxLength >= MIN_RUN_LENGTH /\ at # {}
        THEN LET idx == CHOOSE i \in at : \A j \in at : i <= j
                 upd == [saunaDetected |-> TRUE]
                        @@ [days[idx] EXCEPT !.type = "sauna",
                                             !.saunaEstimateKwh = runs.totalWh,
                                             !.adjustedKwh = days[idx].homeKwh - runs.totalWh]
             IN  Append(days, upd)
        ELSE days

ApplySeries(days, date, series) ==
    LET runs == findConsecutiveRuns(HighPowerIntervals(series), series)
        at == { i \in 1..Len(days) : days[i].date = date }
    IN  IF runs.maxLength >= MIN_RUN_LENGTH /\ at # {}
        THEN LET idx == CHOOSE i \in at : \A j \in at : i <= j
                 upd == [saunaDetected |-> TRUE]
                        @@ [days[idx] EXCEPT !.type = "sauna",
                                             !.saunaEstimateKwh = runs.totalWh,
                                             !.adjustedKwh = days[idx].homeKwh - runs.totalWh]
             IN  [days EXCEPT ![idx] = upd]
        ELSE days

\* The sub-daily series of one day as the telemetry source returns it: one
\* interval per time slot, each with its timestamp and its home_energy.
SeriesOf(date, energies) ==
    [i \in 1..Len(energies) |->
        [timestamp |-> [date |-> date, slot |-> i], home_energy |-> energies[i]]]

Repeat(x, n) == [i \in 1..n |-> x]

\* Energies of a day: a quiet interval, then runA intervals of 1100 Wh,
\* atThreshold intervals of exactly 1000 Wh, and runB intervals of 1300 Wh.
DayPattern(runA, atThreshold, runB) ==
    << 200 >> \o Repeat(1100, runA) \o Repeat(HIGH_POWER_WH, atThreshold) \o Repeat(1300, runB)

\* Runs below, at and above the minimum length, alone and in pairs that an
\* interval of exactly 1000 Wh separates.
DayPatterns ==
    { << 0, 0, 0 >>, << 0, 1, 0 >>,
      << MIN_RUN_LENGTH - 1, 0, 0 >>, << MIN_RUN_LENGTH, 0, 0 >>,
      << MIN_RUN_LENGTH - 1, 1, MIN_RUN_LENGTH - 1 >>,
      << MIN_RUN_LENGTH - 1, 1, MIN_RUN_LENGTH >>,
      << MIN_RUN_LENGTH + 2, 1, MIN_RUN_LENGTH >> }

\* Twelve intervals above the threshold that sum to 13,000 Wh.
TwelveIntervals == << 200 >> \o Repeat(1100, 8) \o Repeat(1050, 4) \o << 300 >>

DayEnergies ==
    { DayPattern(p[1], p[2], p[3]) : p \in DayPatterns } \cup { TwelveIntervals }

\* What awaiting callTeslaMCP for one candidate can yield.
DayResponses(date) ==
    { [ok |-> FALSE], [ok |-> TRUE] }
    \cup { [ok |-> TRUE, time_series |-> SeriesOf(date, e)] : e \in DayEnergies }

\* detectSaunaFromTesla up to its first await: the candidates are listed;
\* without candidates the function returns at once.
BeginSaunaDetection ==
    /\ pc = "detect"
    /\ suspectDays' = SuspectsOf(classifiedDays)
    /\ suspectIdx' = 1
    /\ pc' = IF Len(suspectDays') = 0 THEN "build" ELSE "check"
    /\ lastOutcome' = "none"
    /\ IF Len(suspectDays') = 0
       THEN UNCHANGED <<calls, pending>>
       ELSE /\ calls' = Issue(calls, "suspect", suspectDays'[1].date)
            /\ pending' = pending \cup { Len(calls) + 1 }
    /\ UNCHANGED <<teslaDaily, weatherDaily, historySaunaDays, classifiedDays,
                   fetched, model, anomalyResult, exitCode, written, input, output>>
    /\ UNCHANGED collectVars
    /\ UNCHANGED drillVars
    /\ UNCHANGED fixedVars

\* One iteration of the loop over the candidates: the awaited call and what
\* follows it up to the next await or the return.
CheckSuspect ==
    /\ pc = "check"
    /\ LET date == suspectDays[suspectIdx].date IN
       \E resp \in DayResponses(date) :
          /\ lastOutcome' = Outcome(resp)
          /\ IF resp.ok /\ "time_series" \in DOMAIN resp
             THEN /\ classifiedDays' = ApplySeries(classifiedDays, date, resp.time_series)
                  /\ fetched' = [d \in DOMAIN fetched \cup {date} |->
                                    IF d = date THEN resp.time_series ELSE fetched[d]]
             ELSE UNCHANGED <<classifiedDays, fetched>>
    /\ IF suspectIdx = Len(suspectDays)
       THEN /\ pc' = "build"
            /\ suspectIdx' = suspectIdx
            /\ calls' = calls
            /\ pending' = AfterAwait(pending, Len(calls))
       ELSE /\ pc' = pc
            /\ suspectIdx' = suspectIdx + 1
            /\ calls' = Issue(calls, "suspect", suspectDays[suspectIdx + 1].date)
            /\ pending' = AfterAwait(pending, Len(calls)) \cup { Len(calls) + 1 }
    /\ UNCHANGED <<teslaDaily, weatherDaily, historySaunaDays, suspectDays,
                   model, anomalyResult, exitCode, written, input, output>>
    /\ UNCHANGED collectVars
    /\ UNCHANGED drillVars
    /\ UNCHANGED fixedVars

-----------------------------------------------------------------------------
(* Step 4: buildModel *)

MIN_NORMAL_DAYS == 10       \* normalDays.length < 10
MIN_SEGMENT_DAYS == 4       \* seg.days.length >= 4
MILD_ABOVE == 32            \* d.tempMin > 32
MODERATE_ABOVE == 20        \* d.tempMin > 20 && d.tempMin <= 32
COLD_ABOVE == 5             \* d.tempMin > 5 && d.tempMin <= 20

\* d.type === 'normal' && d.tempMin !== undefined && d.homeKwh > 0
Qualifies(d) == d.type = "normal" /\ "tempMin" \in DOMAIN d /\ d.homeKwh > 0

\* new Date(date + 'T12:00:00').getDay(): 0 is Sunday; '2025-11-01', day 1,
\* is a Saturday.
DayOfWeek(date) == (date + 5) % 7

\* The loop "Add computed features" for normalDays[i] (i from 1).
WithFeatures(normalDays, i) ==
    LET d == normalDays[i]
    IN  [heatingDegreeDays |-> Max(0, HDD_BASE - d.tempMean),
         priorDayTempMin |-> IF i >= 2 THEN normalDays[i - 1].tempMin ELSE d.tempMin,
         thermalMassLag |-> IF i >= 3
                            THEN Norm(normalDays[i].tempMean + normalDays[i - 1].tempMean
                                          + normalDays[i - 2].tempMean, 3)
                            ELSE Rat(d.tempMean),
         isWeekend |-> IF DayOfWeek(d.date) \in {0, 6} THEN 1 ELSE 0]
        @@ d

segmentNames == << "Mild (>32F)", "Moderate (20-32F)", "Cold (5-20F)", "Extreme (<5F)" >>

\* The filters with each boundary moved to the segment above it.
SegmentFilterShifted(k, d) ==
    CASE k = 1 -> d.tempMin >= MILD_ABOVE
      [] k = 2 -> d.tempMin >= MODERATE_ABOVE /\ d.tempMin < MILD_ABOVE
      [] k = 3 -> d.tempMin >= COLD_ABOVE /\ d.tempMin < MODERATE_ABOVE
      [] k = 4 -> d.tempMin < COLD_ABOVE

\* The filter of the k-th segment.
SegmentFilter(k, d) ==
    CASE k = 1 -> d.tempMin > MILD_ABOVE
      [] k = 2 -> d.tempMin > MODERATE_ABOVE /\ d.tempMin <= MILD_ABOVE
      [] k = 3 -> d.tempMin > COLD_ABOVE /\ d.tempMin <= MODERATE_ABOVE
      [] k = 4 -> d.tempMin <= COLD_ABOVE

\* The inner loop with its break: the first segment whose filter accepts
\* the day, 0 when none does.
SegmentIndex(d) ==
    LET accepting == { k \in 1..Len(segmentNames) : SegmentFilter(k, d) }
    IN  IF accepting = {} THEN 0
        ELSE CHOOSE k \in accepting : \A j \in accepting : k <= j

\* seg.days of the k-th segment after the loop over normalDays.
SegmentDays(normalDays, k) ==
    LET InSegment(d) == SegmentIndex(d) = k
    IN  SelectSeq(normalDays, InSegment)

\* The model of a segment: a fit from 4 days on, else the segment mean.
SegmentModel(days) ==
    IF Len(days) >= MIN_SEGMENT_DAYS THEN fitLinearRegression(days, basicFeatures)
    ELSE LET mean == IF Len(days) > 0
                     THEN Mean(Array([i \in 1..Len(days) |-> Kwh(days[i].adjustedKwh)]))
                     ELSE Rat(0)
         IN  [a |-> Rat(0), b |-> Rat(0), c |-> mean, rSquared |-> Rat(0),
              useMean |-> TRUE, coefficients |-> [intercept |-> mean]]

candidateNames == << "tempMin+wind", "tempMin+wind+lag", "HDD+wind",
                     "tempMin+gust+priorDay", "tempMin+gust+priorDay+weekend" >>

candidateFeatures == << basicFeatures, extendedFeatures, hddFeatures,
                        priorDayFeatures, weekendFeatures >>

\* candidates.sort((a, b) => b.model.rSquared - a.model.rSquared): a stable
\* sort by descending rSquared.  SortCandidatesLastWins puts the last of the
\* equal candidates first.
RECURSIVE SortCandidatesLastWins(_)
SortCandidatesLastWins(c) ==
    IF c = << >> THEN << >>
    ELSE LET best == { i \in 1..Len(c) :
                         \A j \in 1..Len(c) : ~RLess(c[i].model.rSquared, c[j].model.rSquared) }
             first == CHOOSE i \in best : \A j \in best : i >= j
         IN  << c[first] >>
             \o SortCandidatesLastWins(SubSeq(c, 1, first - 1) \o SubSeq(c, first + 1, Len(c)))

RECURSIVE SortCandidates(_)
SortCandidates(c) ==
    IF c = << >> THEN << >>
    ELSE LET best == { i \in 1..Len(c) :
                         \A j \in 1..Len(c) : ~RLess(c[i].model.rSquared, c[j].model.rSquared) }
             first == CHOOSE i \in best : \A j \in best : i <= j
         IN  << c[first] >>
             \o SortCandidates(SubSeq(c, 1, first - 1) \o SubSeq(c, first + 1, Len(c)))

\* normalDays.length <= 10
NotEnoughDaysInclusive(idx) == Len(idx) <= MIN_NORMAL_DAYS

\* normalDays.length < 10
NotEnoughDays(idx) == Len(idx) < MIN_NORMAL_DAYS

\* The indices of the days of a list that qualify for the model, ascending.
QualifyingIndices(days) == SortedSeq({ i \in 1..Len(days) : Qualifies(days[i]) })

\* buildModel: status "null" below 10 qualifying days; else the returned object
\* { segments, globalModel, normalDays }, with the five global fits in the
\* order of the candidates list before the sort (fits), and the list of days
\* as the function leaves it (the qualifying days carry their features).
buildModel(days) ==
    LET idx == QualifyingIndices(days)
        plain == Array([k \in 1..Len(idx) |-> days[idx[k]]])
        Built(normalDays) ==
            LET segments == [k \in 1..Len(segmentNames) |->
                                Only({ [name |-> segmentNames[k], days |-> segDays,
                                        model |-> SegmentModel(segDays)] :
                                       segDays \in { SegmentDays(normalDays, k) } })]
                Chosen(fits) ==
                    [status |-> "built", segments |-> segments,
                     globalModel |-> SortCandidates(fits)[1].model,
                     normalDays |-> normalDays, fits |-> fits]
            IN  Only({ Chosen(fits) : fits \in
                       { Array([k \in 1..Len(candidateNames) |->
                             [model |-> fitLinearRegression(normalDays, candidateFeatures[k]),
                              name |-> candidateNames[k]]]) } })
    IN  IF NotEnoughDays(idx)
        THEN [result |-> [status |-> "null"], days |-> days]
        ELSE Only({ [result |-> Built(normalDays),
                     days |-> [i \in 1..Len(days) |->
                                  IF \E k \in 1..Len(idx) : idx[k] = i
                                  THEN normalDays[CHOOSE k \in 1..Len(idx) : idx[k] = i]
                                  ELSE days[i]]] :
                    normalDays \in { Array([k \in 1..Len(idx) |-> WithFeatures(plain, k)]) } })

\* main: const model = buildModel(classifiedDays);
\*       if (!model) { ...; process.exit(1); }
BuildModel ==
    /\ pc = "build"
    /\ \E built \in { buildModel(classifiedDays) } :
          /\ model' = built.result
          /\ classifiedDays' = built.days
          /\ IF built.result.status = "null"
             THEN pc' = "exited" /\ exitCode' = 1
             ELSE pc' = "anomalies" /\ exitCode' = exitCode
    /\ lastOutcome' = "none"
    /\ UNCHANGED <<teslaDaily, weatherDaily, historySaunaDays, suspectDays, suspectIdx,
                   fetched, anomalyResult, written, input, output>>
    /\ UNCHANGED <<calls, pending>>
    /\ UNCHANGED collectVars
    /\ UNCHANGED drillVars
    /\ UNCHANGED fixedVars

-----------------------------------------------------------------------------
(* predictConsumption *)

\* c.name * value when the coefficient is defined, else nothing is added.
Term(c, name, value) ==
    IF name \in DOMAIN c THEN RMul(c[name], value) ELSE Rat(0)

\* x || y for a number x held as a fraction.
RatOrElse(x, y) == IF x[1] # 0 THEN x ELSE y

predictConsumption(m, day) ==
    LET usable == { k \in 1..Len(m.segments) :
                      SegmentFilter(k, day) /\ RSign(m.segments[k].model.rSquared) > 0 }
        c == m.globalModel.coefficients
    IN  IF usable # {}
        THEN LET seg == m.segments[CHOOSE k \in usable : \A j \in usable : k <= j].model
             IN  RAdd(RAdd(RMul(seg.a, Rat(day.tempMin)),
                           RMul(seg.b, Rat(OrZero(day, "windMax")))), seg.c)
        ELSE RSum(<< IF "intercept" \in DOMAIN c THEN c.intercept ELSE Rat(0),
                     Term(c, "tempMin", Rat(day.tempMin)),
                     Term(c, "hdd", Rat(day.heatingDegreeDays)),
                     Term(c, "windMax", Rat(OrZero(day, "windMax"))),
                     Term(c, "windGustMax", Rat(OrZero(day, "windGustMax"))),
                     Term(c, "thermalMassLag", RatOrElse(day.thermalMassLag, Rat(day.tempMean))),
                     Term(c, "priorDayTempMin", Rat(OrElse(day, "priorDayTempMin", day.tempMin))),
                     Term(c, "isWeekend", Rat(OrZero(day, "isWeekend"))) >>, 8)

-----------------------------------------------------------------------------
(* Step 5: detectAnomalies *)

\* A z-score (x - mean) / sqrt(variance) is held as the pair of its
\* numerator dev and the variance under the root; the 0 that the code
\* assigns when the standard deviation is 0 is the pair (0, 1).
ZScore(x, mean, variance) ==
    IF RSign(variance) > 0 THEN [dev |-> RSub(x, mean), variance |-> variance]
    ELSE [dev |-> Rat(0), variance |-> Rat(1)]

\* Math.abs(zScore) >= 1.5
ZFlaggedInclusive(z) == ~RLess(RMul(Rat(4), RSquare(z.dev)), RMul(Rat(9), z.variance))

\* Math.abs(zScore) > 1.5, compared by the squares: 4 dev^2 > 9 variance
ZFlagged(z) == RLess(RMul(Rat(9), z.variance), RMul(Rat(4), RSquare(z.dev)))

\* zScore > 0 ? 'HIGH' : 'LOW'
ZDirection(z) == IF RSign(z.dev) > 0 THEN "HIGH" ELSE "LOW"

\* The residual statistics and the loop over the days, on the list of the
\* residuals: for each, its z-score, whether it is flagged, and the direction.
ScoreResiduals(residuals) ==
    LET Scores(meanRes, varRes) ==
            Array([i \in 1..Len(residuals) |->
                Only({ [zScore |-> z, flagged |-> ZFlagged(z), direction |-> ZDirection(z)] :
                       z \in { ZScore(residuals[i], meanRes, varRes) } })])
        WithMean(meanRes) ==
            Only({ Scores(meanRes, varRes) : varRes \in { Variance(residuals, meanRes) } })
    IN  Only({ WithMean(meanRes) : meanRes \in { Mean(residuals) } })

\* drillDownAnomalies: anomalies.sort((a, b) => |b.zScore| - |a.zScore|), in
\* place and stable; the z-scores of one run share their variance.
\* SortByExtremityAscending puts the least extreme first.
RECURSIVE SortByExtremityAscending(_)
SortByExtremityAscending(a) ==
    IF a = << >> THEN << >>
    ELSE LET top == { i \in 1..Len(a) :
                        \A j \in 1..Len(a) : ~RLess(RAbs(a[j].zScore.dev), RAbs(a[i].zScore.dev)) }
             first == CHOOSE i \in top : \A j \in top : i <= j
         IN  << a[first] >>
             \o SortByExtremityAscending(SubSeq(a, 1, first - 1) \o SubSeq(a, first + 1, Len(a)))

RECURSIVE SortByExtremity(_)
SortByExtremity(a) ==
    IF a = << >> THEN << >>
    ELSE LET top == { i \in 1..Len(a) :
                        \A j \in 1..Len(a) : ~RLess(RAbs(a[i].zScore.dev), RAbs(a[j].zScore.dev)) }
             first == CHOOSE i \in top : \A j \in top : i <= j
         IN  << a[first] >>
             \o SortByExtremity(SubSeq(a, 1, first - 1) \o SubSeq(a, first + 1, Len(a)))

\* detectAnomalies: the returned object and the list of days as the function
\* leaves it (the qualifying days carry expectedKwh, residualKwh and zScore).
\* residualStats holds the variance, the square of stddev.
detectAnomalies(days, m) ==
    LET idx == QualifyingIndices(days)
        Returned(expected, residuals, scores) ==
            LET scored == [k \in 1..Len(idx) |->
                              [expectedKwh |-> expected[k], residualKwh |-> residuals[k],
                               zScore |-> scores[k].zScore] @@ days[idx[k]]]
                flagged == SortedSeq({ k \in 1..Len(idx) : scores[k].flagged })
                meanRes == Mean(residuals)
            IN  [result |-> [status |-> "done",
                             anomalies |-> [j \in 1..Len(flagged) |->
                                               [direction |-> scores[flagged[j]].direction]
                                               @@ scored[flagged[j]]],
                             residualStats |-> [mean |-> meanRes,
                                                variance |-> Variance(residuals, meanRes)]],
                 days |-> [i \in 1..Len(days) |->
                              IF \E k \in 1..Len(idx) : idx[k] = i
                              THEN scored[CHOOSE k \in 1..Len(idx) : idx[k] = i]
                              ELSE days[i]]]
        Scores(expected, residuals) ==
            Only({ Returned(expected, residuals, scores) :
                   scores \in { Array(ScoreResiduals(residuals)) } })
        Residuals(expected) ==
            Only({ Scores(expected, residuals) :
                   residuals \in { Array([k \in 1..Len(idx) |->
                                      RSub(Kwh(days[idx[k]].adjustedKwh), expected[k])]) } })
    IN  Only({ Residuals(expected) :
               expected \in { Array([k \in 1..Len(idx) |->
                                  predictConsumption(m, days[idx[k]])]) } })

TOP_ANOMALIES == 5          \* .slice(0, 5)

Min(a, b) == IF a < b THEN a ELSE b

\* main: detectAnomalies(classifiedDays, model), then drillDownAnomalies up
\* to its first await: the anomalies are sorted in place and the first five
\* are kept for the drill-down.
DetectAnomalies ==
    /\ pc = "anomalies"
    /\ \E res \in { detectAnomalies(classifiedDays, model) } :
       \E sorted \in { SortByExtremity(res.result.anomalies) } :
           /\ anomalyResult' = [res.result EXCEPT !.anomalies = sorted]
           /\ classifiedDays' = res.days
           /\ topAnomalies' = SubSeq(sorted, 1, Min(TOP_ANOMALIES, Len(sorted)))
           /\ pc' = IF Len(sorted) = 0 THEN "report" ELSE "drilldown"
           /\ IF Len(sorted) = 0
              THEN UNCHANGED <<calls, pending>>
              ELSE /\ calls' = Issue(calls, "anomaly", sorted[1].date)
                   /\ pending' = pending \cup { Len(calls) + 1 }
    /\ drillIdx' = 1
    /\ drilldowns' = << >>
    /\ lastOutcome' = "none"
    /\ UNCHANGED <<teslaDaily, weatherDaily, historySaunaDays, suspectDays, suspectIdx,
                   fetched, model, exitCode, written, input, output>>
    /\ UNCHANGED collectVars
    /\ UNCHANGED fixedVars

\* One iteration of the loop of drillDownAnomalies.  The entry pushed for an
\* anomaly is held without its hourly profile and patterns.
DrillDown ==
    /\ pc = "drilldown"
    /\ LET anomaly == topAnomalies[drillIdx] IN
       \E resp \in DayResponses(anomaly.date) :
          /\ lastOutcome' = Outcome(resp)
          /\ drilldowns' = IF resp.ok /\ "time_series" \in DOMAIN resp
                           THEN Append(drilldowns,
                                       [date |-> anomaly.date, direction |-> anomaly.direction,
                                        zScore |-> anomaly.zScore, actualKwh |-> anomaly.adjustedKwh,
                                        expectedKwh |-> anomaly.expectedKwh,
                                        residualKwh |-> anomaly.residualKwh])
                           ELSE drilldowns
    /\ IF drillIdx = Len(topAnomalies)
       THEN /\ pc' = "report"
            /\ drillIdx' = drillIdx
            /\ calls' = calls
            /\ pending' = AfterAwait(pending, Len(calls))
       ELSE /\ pc' = pc
            /\ drillIdx' = drillIdx + 1
            /\ calls' = Issue(calls, "anomaly", topAnomalies[drillIdx + 1].date)
            /\ pending' = AfterAwait(pending, Len(calls)) \cup { Len(calls) + 1 }
    /\ UNCHANGED <<teslaDaily, weatherDaily, historySaunaDays, classifiedDays, suspectDays,
                   suspectIdx, fetched, model, anomalyResult, topAnomalies, exitCode,
                   written, input, output>>
    /\ UNCHANGED collectVars
    /\ UNCHANGED fixedVars

\* generateReport: anomalies.sort((x, y) => x.date.localeCompare(y.date)), in
\* place, on a list with one entry per date.
SortAnomaliesByDate(a) ==
    LET dates == SortedSeq({ a[i].date : i \in 1..Len(a) })
    IN  [k \in 1..Len(a) |-> a[CHOOSE i \in 1..Len(a) : a[i].date = dates[k]]]

\* main from the benchmark to its end: the report (which sorts the anomalies
\* by date) and the structured results are written and main returns.
FinishRun ==
    /\ pc = "report"
    /\ written' = written \cup { "report.md", "structured-results.json" }
    /\ anomalyResult' = [anomalyResult EXCEPT !.anomalies = SortAnomaliesByDate(@)]
    /\ pc' = "done"
    /\ exitCode' = 0
    /\ lastOutcome' = "none"
    /\ UNCHANGED <<teslaDaily, weatherDaily, historySaunaDays, classifiedDays, suspectDays,
                   suspectIdx, fetched, model, input, output>>
    /\ UNCHANGED <<calls, pending>>
    /\ UNCHANGED collectVars
    /\ UNCHANGED drillVars
    /\ UNCHANGED fixedVars

-----------------------------------------------------------------------------
(* The data of a run: what the collection stages hand to classifyDays *)

\* Daily weather by date (degrees F, mph).
WeatherAt(d) ==
    [date |-> d,
     tempMin |-> IF d % 5 \in {0, 3} THEN 5 ELSE 6,
     tempMax |-> 70,
     tempMean |-> IF d % 7 \in {2, 5} THEN 0 ELSE 65,
     windMax |-> IF d % 3 = 0 THEN 1 ELSE 0,
     windGustMax |-> IF d % 4 \in {0, 1} THEN 1 ELSE 0]

FirstDates == { 42, 55, 60 }

Profiles == { "varied", "flat", "tempLinear", "priorLinear" }

\* Daily home energy (Wh) by date.
BaseEnergy(profile, d) ==
    CASE profile = "varied" -> 20000 + 10000 * (d % 3)
      [] profile = "flat" -> 30000
      [] profile = "tempLinear" -> 40000 - 10000 * (WeatherAt(d).tempMin - 5)
      [] profile = "priorLinear" -> 20000 + 10000 * (WeatherAt(d - 1).tempMin - 5)

\* One day may depart from the profile: a day without consumption or a day
\* of 60 kWh.
SpecialDates == { 57, 64, 66 }
SpecialEnergies == { 0, 60000 }
Specials == { [date |-> 0, wh |-> 0] }
            \cup { [date |-> d, wh |-> e] : d \in SpecialDates, e \in SpecialEnergies }

HistoryChoices == { {}, {57}, {60}, {66} }

\* The weather list may lack a date.
MissingWeather == { 0, 70 }

Dataset(first, n, profile, special) ==
    [i \in 1..n |->
        LET d == first + i - 1
        IN  [date |-> d,
             homeEnergy |-> IF d = special.date THEN special.wh ELSE BaseEnergy(profile, d),
             intervalCount |-> 288]]

WeatherList(first, n, missing) ==
    LET Present(w) == w.date # missing
    IN  SelectSeq([i \in 1..n |-> WeatherAt(first + i - 1)], Present)

\* Daily weather that is the same on every date: calm days of 5 F to 70 F.
StillWeatherAt(d) ==
    [date |-> d, tempMin |-> 5, tempMax |-> 70, tempMean |-> 65,
     windMax |-> 0, windGustMax |-> 0]

\* The weather lists of a run over n days from first.
WeatherLists(first, n) ==
    { WeatherList(first, n, missing) : missing \in MissingWeather }
    \cup { [i \in 1..n |-> StillWeatherAt(first + i - 1)] }

\* main run with --cached, after the cache file has been read into
\* teslaDaily and weatherDaily: no call has been made.
Init ==
    /\ pc = "classify"
    /\ cachedRun = TRUE
    /\ calls = << >>
    /\ pending = {}
    /\ lastOutcome = "none"
    /\ firstRun = [status |-> "none"]
    /\ call = [fn |-> "none"]
    /\ queryIdx = Len(queries)
    /\ byDate = << >>
    /\ seenTimestamps = {}
    /\ firstSeen = << >>
    /\ repeated = FALSE
    /\ \E first \in FirstDates, n \in 0..MaxDays, profile \in Profiles,
          special \in Specials :
          /\ teslaDaily = Dataset(first, n, profile, special)
          /\ weatherDaily \in WeatherLists(first, n)
    /\ historySaunaDays \in HistoryChoices
    /\ classifiedDays = << >>
    /\ suspectDays = << >>
    /\ suspectIdx = 1
    /\ fetched = << >>
    /\ model = [status |-> "none"]
    /\ anomalyResult = [status |-> "none"]
    /\ topAnomalies = << >>
    /\ drillIdx = 1
    /\ drilldowns = << >>
    /\ exitCode = "running"
    /\ written = {}
    /\ input = "none"
    /\ output = "none"

Next ==
    \/ ClassifyDays
    \/ BeginSaunaDetection
    \/ CheckSuspect
    \/ BuildModel
    \/ DetectAnomalies
    \/ DrillDown
    \/ FinishRun

Spec == Init /\ [][Next]_vars

-----------------------------------------------------------------------------
(* main without --cached: the collection, the weather request and the cache
   file come before the stages above *)

\* The time_series of a range query that holds one interval for each day.
BulkSeries(days) ==
    [i \in 1..Len(days) |->
        [timestamp |-> [date |-> days[i].date, slot |-> 1],
         home_energy |-> days[i].homeEnergy]]

LiveFirstDate == 60

\* What the telemetry source holds: the days with one day of 60 kWh, or
\* all but the last of the days without it.
LiveDatasets ==
    { Dataset(LiveFirstDate, MaxDays, "varied", [date |-> 66, wh |-> 60000]),
      Dataset(LiveFirstDate, MaxDays - 1, "varied", [date |-> 0, wh |-> 0]) }

\* What awaiting callTeslaMCP for a range query can yield in such a run.
LiveResponses ==
    { [ok |-> FALSE], [ok |-> TRUE] }
    \cup { [ok |-> TRUE, time_series |-> BulkSeries(ds)] : ds \in LiveDatasets }

FetchLiveQuery == FetchQueryFrom(LiveResponses)

\* What awaiting httpGet can yield: a rejection (network error, body that
\* is not JSON), a parsed body without daily.time, or the daily arrays.
WeatherResponses ==
    { [ok |-> FALSE], [ok |-> TRUE] }
    \cup { [ok |-> TRUE, daily |-> WeatherList(LiveFirstDate, MaxDays, missing)] :
             missing \in MissingWeather }

\* main resumes with the list collectTeslaDaily returned and calls
\* collectWeatherData, which runs up to "await httpGet(url)".
BeginWeather ==
    /\ pc = "collected"
    /\ pc' = "weather"
    /\ calls' = Issue(calls, "weather", "archive")
    /\ pending' = pending \cup { Len(calls) + 1 }
    /\ lastOutcome' = "none"
    /\ UNCHANGED <<teslaDaily, weatherDaily, historySaunaDays, classifiedDays, suspectDays,
                   suspectIdx, fetched, model, anomalyResult, exitCode, written,
                   input, output>>
    /\ UNCHANGED collectVars
    /\ UNCHANGED drillVars
    /\ UNCHANGED fixedVars

\* collectWeatherData after its await, and main up to classifyDays.  A
\* rejection of httpGet and the "Invalid weather response" error leave
\* collectWeatherData and main as exceptions: main().catch logs the error
\* and calls process.exit(1).  Else the cache file is written.
FetchWeather ==
    /\ pc = "weather"
    /\ \E resp \in WeatherResponses :
          /\ lastOutcome' = IF ~resp.ok THEN "rejected"
                            ELSE IF "daily" \notin DOMAIN resp THEN "invalid"
                            ELSE "resolved"
          /\ IF resp.ok /\ "daily" \in DOMAIN resp
             THEN /\ weatherDaily' = resp.daily
                  /\ written' = written \cup { "cached-data.json" }
                  /\ pc' = "classify"
                  /\ exitCode' = exitCode
             ELSE /\ pc' = "failed"
                  /\ exitCode' = 1
                  /\ UNCHANGED <<weatherDaily, written>>
    /\ calls' = calls
    /\ pending' = AfterAwait(pending, Len(calls))
    /\ UNCHANGED <<teslaDaily, historySaunaDays, classifiedDays, suspectDays,
                   suspectIdx, fetched, model, anomalyResult, input, output>>
    /\ UNCHANGED collectVars
    /\ UNCHANGED drillVars
    /\ UNCHANGED fixedVars

\* main at the first await of collectTeslaDaily.
InitMain ==
    /\ pc = "collect"
    /\ queryIdx = 1
    /\ byDate = << >>
    /\ seenTimestamps = {}
    /\ firstSeen = << >>
    /\ repeated = FALSE
    /\ teslaDaily = << >>
    /\ weatherDaily = << >>
    /\ historySaunaDays \in HistoryChoices
    /\ classifiedDays = << >>
    /\ suspectDays = << >>
    /\ suspectIdx = 1
    /\ fetched = << >>
    /\ model = [status |-> "none"]
    /\ anomalyResult = [status |-> "none"]
    /\ topAnomalies = << >>
    /\ drillIdx = 1
    /\ drilldowns = << >>
    /\ exitCode = "running"
    /\ written = {}
    /\ cachedRun = FALSE
    /\ calls = Issue(<< >>, "range", queries[1])
    /\ pending = { 1 }
    /\ lastOutcome = "none"
    /\ firstRun = [status |-> "none"]
    /\ call = [fn |-> "none"]
    /\ input = "none"
    /\ output = "none"

NextMain ==
    \/ FetchLiveQuery
    \/ BeginWeather
    \/ FetchWeather
    \/ ClassifyDays
    \/ BeginSaunaDetection
    \/ CheckSuspect
    \/ BuildModel
    \/ DetectAnomalies
    \/ DrillDown
    \/ FinishRun

SpecMain == InitMain /\ [][NextMain]_vars

-----------------------------------------------------------------------------
(* The script run a second time with --cached on the cache file of the
   first run *)

\* The days of one cache file: the fifteen days from 2025-12-30 on, one of
\* them with 60 kWh, and their weather.
RerunCache ==
    /\ teslaDaily = Dataset(LiveFirstDate, MaxDays, "varied", [date |-> 66, wh |-> 60000])
    /\ weatherDaily = WeatherList(LiveFirstDate, MaxDays, 0)
    /\ historySaunaDays = {}

InitRerun == Init /\ RerunCache

\* The first run has ended with its report; its results are kept aside and
\* main starts again: the cache file and history.json are as they were.
Rerun ==
    /\ pc = "done"
    /\ firstRun.status = "none"
    /\ firstRun' = [status |-> "done",
                    coefficients |-> model.globalModel.coefficients,
                    segments |-> [k \in 1..Len(model.segments) |-> model.segments[k].model],
                    anomalies |-> anomalyResult.anomalies]
    /\ pc' = "classify"
    /\ classifiedDays' = << >>
    /\ suspectDays' = << >>
    /\ suspectIdx' = 1
    /\ fetched' = << >>
    /\ model' = [status |-> "none"]
    /\ anomalyResult' = [status |-> "none"]
    /\ topAnomalies' = << >>
    /\ drillIdx' = 1
    /\ drilldowns' = << >>
    /\ exitCode' = "running"
    /\ written' = {}
    /\ calls' = << >>
    /\ pending' = {}
    /\ lastOutcome' = "none"
    /\ UNCHANGED <<teslaDaily, weatherDaily, historySaunaDays, cachedRun, call, input, output>>
    /\ UNCHANGED collectVars

NextRerun == Next \/ Rerun

SpecRerun == InitRerun /\ [][NextRerun]_vars

-----------------------------------------------------------------------------
(* C15 *)

\* C15: a second run on the same cache file and the same history.json
\* ends as the first did, with the same coefficients of the selected
\* model, the same segment models and the same list of anomalies.
C15_RerunSameResults ==
    (firstRun.status = "done" /\ pc \in { "done", "exited" }) =>
        /\ pc = "done"
        /\ model.globalModel.coefficients = firstRun.coefficients
        /\ [k \in 1..Len(model.segments) |-> model.segments[k].model] = firstRun.segments
        /\ anomalyResult.anomalies = firstRun.anomalies

-----------------------------------------------------------------------------
(* C16 *)

\* C16: a run with --cached on an existing cache file starts no external
\* call: no range query, no weather request, no sub-daily fetch for a
\* candidate or an anomaly.
C16_CachedRunMakesNoCall ==
    cachedRun => (calls = << >> /\ pending = {})

-----------------------------------------------------------------------------
(* C23 *)

\* C23: for every classified day with a weather record, the degree days
\* attached to the day (hdd, which the benchmark sums) are
\* max(0, 65 - tempMean), also at tempMean = 0, and the heatingDegreeDays
\* feature that buildModel gives the day is the same number.
C23_HddFromMeanTemperature ==
    \A i \in 1..Len(classifiedDays) :
        LET d == classifiedDays[i]
        IN  "tempMean" \in DOMAIN d =>
                /\ d.hdd = Max(0, HDD_BASE - d.tempMean)
                /\ "heatingDegreeDays" \in DOMAIN d => d.heatingDegreeDays = d.hdd

-----------------------------------------------------------------------------
(* C20 *)

AfterDetection == { "build", "anomalies", "drilldown", "report" }

\* C20: once the sauna detection has finished, no later stage changes the
\* list of classified days (no field added to or changed in a record, no
\* reordering), and the anomaly list that detectAnomalies returned keeps its
\* order through the drill-down and the report.
C20_LaterStagesLeaveInputs ==
    [][ /\ pc \in AfterDetection => classifiedDays' = classifiedDays
        /\ pc = "anomalies" =>
               anomalyResult'.anomalies = detectAnomalies(classifiedDays, model).result.anomalies
        /\ pc \in { "drilldown", "report" } =>
               anomalyResult'.anomalies = anomalyResult.anomalies ]_vars

-----------------------------------------------------------------------------
(* C18 *)

CallKinds == { "range", "weather", "suspect", "anomaly" }

\* C18: at most one external call is in flight.  Only the call started last
\* can be pending, so each call (range query, weather request, candidate or
\* anomaly fetch) is started after every earlier one has resolved or been
\* rejected.
C18_OneCallInFlight ==
    /\ Cardinality(pending) <= 1
    /\ pending \subseteq { Len(calls) }
    /\ \A i \in 1..Len(calls) : calls[i].kind \in CallKinds

\* Calls of all four kinds have been made and the last, a fetch for an
\* anomaly, is the only one in flight.
C18_Witness ==
    /\ pc = "drilldown"
    /\ { calls[i].kind : i \in 1..Len(calls) } = CallKinds
    /\ Len(calls) >= Len(queries) + 3
    /\ pending = { Len(calls) }

-----------------------------------------------------------------------------
(* C11 *)

\* The call started last.
LastCall == calls[Len(calls)]

\* C11: a telemetry call that is rejected (process error, timeout,
\* unparseable or empty response) never ends the run.  In collectTeslaDaily
\* the days and the consumed timestamps stay as they were and the next
\* range query is started, or the list is sorted and returned after the
\* last one; in detectSaunaFromTesla the classified days stay as they were
\* and the next candidate is fetched, or the model stage follows; in
\* drillDownAnomalies no entry is added and the next anomaly is fetched, or
\* the report stage follows.
C11_FailedCallNotFatal ==
    [][ (lastOutcome' = "rejected" /\ pc \in { "collect", "check", "drilldown" }) =>
          /\ exitCode' = "running"
          /\ classifiedDays' = classifiedDays
          /\ drilldowns' = drilldowns
          /\ byDate' = byDate
          /\ seenTimestamps' = seenTimestamps
          /\ pc = "collect" =>
                IF queryIdx < Len(queries)
                THEN /\ pc' = "collect"
                     /\ queryIdx' = queryIdx + 1
                     /\ Len(calls') = Len(calls) + 1
                     /\ LastCall' = [kind |-> "range", target |-> queries[queryIdx + 1]]
                ELSE /\ pc' = "collected"
                     /\ teslaDaily' = SortByDate(byDate)
          /\ pc = "check" =>
                IF suspectIdx < Len(suspectDays)
                THEN /\ pc' = "check"
                     /\ suspectIdx' = suspectIdx + 1
                     /\ Len(calls') = Len(calls) + 1
                     /\ LastCall' = [kind |-> "suspect",
                                     target |-> suspectDays[suspectIdx + 1].date]
                ELSE pc' = "build"
          /\ pc = "drilldown" =>
                IF drillIdx < Len(topAnomalies)
                THEN /\ pc' = "drilldown"
                     /\ drillIdx' = drillIdx + 1
                     /\ Len(calls') = Len(calls) + 1
                     /\ LastCall' = [kind |-> "anomaly",
                                     target |-> topAnomalies[drillIdx + 1].date]
                ELSE pc' = "report" ]_vars

\* A range query was rejected after earlier queries had given days; the
\* days are kept and the last range query is under way.
C11_Witness ==
    /\ pc = "collect"
    /\ lastOutcome = "rejected"
    /\ queryIdx = Len(queries)
    /\ Len(calls) = Len(queries)
    /\ pending = { Len(calls) }
    /\ DOMAIN byDate # {}
    /\ exitCode = "running"

-----------------------------------------------------------------------------
(* C12 *)

\* The step before awaited the weather request, which failed: httpGet
\* rejected, or its body had no daily.time.
WeatherFetchFailed ==
    /\ Len(calls) > 0
    /\ LastCall.kind = "weather"
    /\ lastOutcome \in { "rejected", "invalid" }

\* C12: a failure of the weather fetch (network error, unparseable JSON, a
\* response without daily.time) does not abort the run: the run goes on to
\* classify the days, which then have no weather data.
C12_WeatherFailureNotFatal ==
    WeatherFetchFailed =>
        /\ pc = "classify"
        /\ exitCode = "running"
        /\ weatherDaily = << >>

-----------------------------------------------------------------------------
(* C13 *)

\* solveLinearSystem returns null for the normal equations of the days:
\* with enough days, this is the only way to the empty coefficient set.
SingularSystem(days, features) ==
    /\ Len(days) >= Len(features) + 2
    /\ fitLinearRegression(days, features).coefficients = << >>

\* C13: a segment of at least 4 days whose normal equations are singular
\* has the constant model of a segment with fewer than 4 days: intercept c
\* equal to the mean adjustedKwh of its days, slopes a and b equal to 0.
C13_SingularSegmentUsesMean ==
    model.status = "built" =>
        \A k \in 1..Len(model.segments) :
            LET seg == model.segments[k] IN
            (Len(seg.days) >= MIN_SEGMENT_DAYS /\ SingularSystem(seg.days, basicFeatures)) =>
                /\ seg.model.c
                      = Mean(Array([i \in 1..Len(seg.days) |-> Kwh(seg.days[i].adjustedKwh)]))
                /\ seg.model.a = Rat(0)
                /\ seg.model.b = Rat(0)

-----------------------------------------------------------------------------
(* C14 *)

\* C14: the global model of a built model is never a degenerate fit (the
\* empty coefficient set with R2 0 that fitLinearRegression returns for a
\* singular system), whatever the sample of 10 or more normal days.
C14_DegenerateNeverSelected ==
    model.status = "built" =>
        /\ Len(model.normalDays) >= MIN_NORMAL_DAYS
        /\ model.globalModel.coefficients # << >>

-----------------------------------------------------------------------------
(* C2 *)

DayTypes == { "normal", "out-of-town", "sauna" }

Classified == pc \notin { "classify" }

\* C2: once classifyDays has run, and after every later stage, there is
\* exactly one classified record for each date of the telemetry list and
\* none for any other date, and the type of each record is one of normal,
\* out-of-town (away) and sauna (high-load).
C2_OneTypePerDay ==
    Classified =>
        /\ \A i \in 1..Len(teslaDaily) :
              Cardinality({ j \in 1..Len(classifiedDays) :
                              classifiedDays[j].date = teslaDaily[i].date }) = 1
        /\ \A j \in 1..Len(classifiedDays) :
              /\ classifiedDays[j].type \in DayTypes
              /\ \E i \in 1..Len(teslaDaily) : teslaDaily[i].date = classifiedDays[j].date

\* The run has ended with days of all three types, one of them reclassified
\* by the detection.
C2_Witness ==
    /\ pc = "done"
    /\ \A t \in DayTypes : \E j \in 1..Len(classifiedDays) : classifiedDays[j].type = t
    /\ \E j \in 1..Len(classifiedDays) : "saunaDetected" \in DOMAIN classifiedDays[j]

-----------------------------------------------------------------------------
(* C3 *)

\* C3: in every state, each classified day's adjustedKwh is its homeKwh
\* minus its saunaEstimateKwh.
C3_AdjustedIsHomeMinusEstimate ==
    \A j \in 1..Len(classifiedDays) :
        classifiedDays[j].adjustedKwh
            = classifiedDays[j].homeKwh - classifiedDays[j].saunaEstimateKwh

\* A day carries the a-priori estimate and another one a detected run's energy.
C3_Witness ==
    /\ \E j \in 1..Len(classifiedDays) :
          /\ "saunaDetected" \in DOMAIN classifiedDays[j]
          /\ classifiedDays[j].saunaEstimateKwh > 0
    /\ \E j \in 1..Len(classifiedDays) :
          /\ "saunaDetected" \notin DOMAIN classifiedDays[j]
          /\ classifiedDays[j].saunaEstimateKwh = SAUNA_ESTIMATE

-----------------------------------------------------------------------------
(* C4 *)

\* C4: in every state, each classified day's adjustedKwh is at least 0,
\* whether its estimate is the a-priori 25 kWh or a detected run's energy.
C4_AdjustedNonNegative ==
    \A j \in 1..Len(classifiedDays) : classifiedDays[j].adjustedKwh >= 0

-----------------------------------------------------------------------------
(* C5 *)

InAwayRange(date) == date >= OUT_OF_TOWN_START /\ date <= OUT_OF_TOWN_END

-----------------------------------------------------------------------------
(* C6 *)

\* Intervals i..j of a series are each above 1000 Wh.
IsRun(series, i, j) ==
    i <= j /\ \A k \in i..j : series[k].home_energy > 1000

\* L: the length of the longest run of a series (0 without a run).
LongestRun(series) ==
    LET lengths == { j - i + 1 : <<i, j>> \in
                       { r \in (1..Len(series)) \X (1..Len(series)) :
                           IsRun(series, r[1], r[2]) } } \cup { 0 }
    IN  CHOOSE l \in lengths : \A m \in lengths : m <= l

\* E: the summed energy (Wh) of the earliest longest run.
LongestRunEnergy(series) ==
    LET l == LongestRun(series)
        starts == { i \in 1..(Len(series) - l + 1) : IsRun(series, i, i + l - 1) }
        i0 == CHOOSE i \in starts : \A k \in starts : i <= k
    IN  IF l = 0 THEN 0
        ELSE SumOver(i0..(i0 + l - 1), [k \in 1..Len(series) |-> series[k].home_energy])

\* The record of a date in the list classifyDays returned.
AsClassified(date) ==
    LET days == classifyDays(teslaDaily, weatherDaily, historySaunaDays)
    IN  days[CHOOSE i \in 1..Len(days) : days[i].date = date]

-----------------------------------------------------------------------------
(* C7 *)

\* C7: the global model of a built model is one of the five candidate fits,
\* its R2 is not below the R2 of any candidate, and it is the first in the
\* listed order among the candidates of that R2.
C7_BestCandidate ==
    model.status = "built" =>
        LET best == { k \in 1..Len(model.fits) :
                        \A j \in 1..Len(model.fits) :
                            ~RLess(model.fits[k].model.rSquared, model.fits[j].model.rSquared) }
        IN  /\ \A j \in 1..Len(model.fits) :
                  ~RLess(model.globalModel.rSquared, model.fits[j].model.rSquared)
            /\ \E k \in best :
                  /\ model.globalModel = model.fits[k].model
                  /\ \A j \in best : k <= j

\* Two candidates with different coefficients share the highest R2, which
\* the first candidate of the list does not reach.
C7_Witness ==
    /\ model.status = "built"
    /\ \E k, j \in 2..Len(model.fits) :
          /\ k < j
          /\ model.fits[k].model.rSquared = model.fits[j].model.rSquared
          /\ model.fits[k].model # model.fits[j].model
          /\ RLess(model.fits[1].model.rSquared, model.fits[k].model.rSquared)
          /\ model.globalModel = model.fits[k].model

-----------------------------------------------------------------------------
(* C10 *)

QualifyingCount == Cardinality({ j \in 1..Len(classifiedDays) : Qualifies(classifiedDays[j]) })

\* C10: buildModel refuses (returns null) exactly when fewer than 10 normal
\* days with weather data and positive consumption exist; the run then ends
\* with exit code 1 before any anomaly, drill-down or report stage, and
\* neither report.md nor structured-results.json is written.
C10_NoModelNoReport ==
    /\ pc \in { "exited", "anomalies", "drilldown", "report", "done" } =>
          (model.status = "null" <=> QualifyingCount < 10)
    /\ model.status = "null" =>
          /\ pc = "exited"
          /\ exitCode = 1
          /\ anomalyResult.status = "none"
          /\ drilldowns = << >>
          /\ written \cap { "report.md", "structured-results.json" } = {}
    /\ pc \in { "exited", "anomalies" } <=> model.status \in { "null", "built" } /\ anomalyResult.status = "none"

\* The run has stopped on nine qualifying days.
C10_Witness ==
    /\ pc = "exited"
    /\ QualifyingCount = 9

-----------------------------------------------------------------------------
(* The segment filters on their own *)

\* Nothing but the function under study runs.
Idle ==
    /\ queryIdx = 1
    /\ byDate = << >>
    /\ seenTimestamps = {}
    /\ firstSeen = << >>
    /\ repeated = FALSE
    /\ teslaDaily = << >>
    /\ weatherDaily = << >>
    /\ historySaunaDays = {}
    /\ classifiedDays = << >>
    /\ suspectDays = << >>
    /\ suspectIdx = 1
    /\ fetched = << >>
    /\ model = [status |-> "none"]
    /\ anomalyResult = [status |-> "none"]
    /\ topAnomalies = << >>
    /\ drillIdx = 1
    /\ drilldowns = << >>
    /\ exitCode = "running"
    /\ written = {}
    /\ cachedRun = FALSE
    /\ calls = << >>
    /\ pending = {}
    /\ lastOutcome = "none"
    /\ firstRun = [status |-> "none"]
    /\ call = [fn |-> "none"]

idleVars == <<queryIdx, byDate, seenTimestamps, firstSeen, repeated, teslaDaily, weatherDaily,
              historySaunaDays, classifiedDays, suspectDays, suspectIdx, fetched,
              model, anomalyResult, topAnomalies, drillIdx, drilldowns, exitCode,
              written, cachedRun, calls, pending, lastOutcome, firstRun, call>>

InitSegment ==
    /\ pc = "segment"
    /\ \E t \in (COLD_ABOVE - TempSpan)..(MILD_ABOVE + TempSpan) :
          input = [date |-> 64, tempMin |-> t]
    /\ output = "none"
    /\ Idle

\* The loops of buildModel that fill seg.days, for a list of one normal day.
AssignSegment ==
    /\ pc = "segment"
    /\ output' = [k \in 1..Len(segmentNames) |-> SegmentDays(<< input >>, k)]
    /\ pc' = "segmented"
    /\ UNCHANGED input
    /\ UNCHANGED idleVars

NextSegment == AssignSegment

SpecSegment == InitSegment /\ [][NextSegment]_vars

-----------------------------------------------------------------------------
(* C8 *)

\* The segment of a daily minimum temperature by the ranges of the report.
ExpectedSegment(t) ==
    IF t > 32 THEN "Mild (>32F)"
    ELSE IF t > 20 THEN "Moderate (20-32F)"
    ELSE IF t > 5 THEN "Cold (5-20F)"
    ELSE "Extreme (<5F)"

\* C8: a normal day with a numeric tempMin satisfies exactly one segment
\* filter and is placed in exactly that segment, which is the one its
\* temperature range names; 32 is Moderate, 20 is Cold and 5 is Extreme.
C8_SegmentPartition ==
    pc = "segmented" =>
        LET t == input.tempMin
            holding == { k \in 1..Len(segmentNames) : output[k] # << >> }
        IN  /\ Cardinality({ k \in 1..Len(segmentNames) : SegmentFilter(k, input) }) = 1
            /\ Cardinality(holding) = 1
            /\ \A k \in holding :
                  /\ output[k] = << input >>
                  /\ SegmentFilter(k, input)
                  /\ segmentNames[k] = ExpectedSegment(t)
                  /\ t = 32 => segmentNames[k] = "Moderate (20-32F)"
                  /\ t = 20 => segmentNames[k] = "Cold (5-20F)"
                  /\ t = 5 => segmentNames[k] = "Extreme (<5F)"

\* A day with a minimum of exactly 32 F has been placed, in Moderate.
C8_Witness ==
    /\ pc = "segmented"
    /\ input.tempMin = 32
    /\ output[2] = << input >>

-----------------------------------------------------------------------------
(* drillDownAnomalies on its own *)

\* z-scores of anomalies, in units of the residuals' standard deviation.
AnomalyScores == { 2, -3 }

\* The list detectAnomalies returns, by the scores of its anomalies: one
\* anomaly per date, in the order of the dates.
AnomalyList(scores) ==
    [i \in 1..Len(scores) |->
        [date |-> 63 + i,
         direction |-> IF scores[i] > 0 THEN "HIGH" ELSE "LOW",
         zScore |-> [dev |-> Rat(scores[i]), variance |-> Rat(1)],
         adjustedKwh |-> 30000 + 1000 * scores[i],
         expectedKwh |-> Rat(30),
         residualKwh |-> Rat(scores[i])]]

AnomalyLists == { AnomalyList(scores) : scores \in SeqsUpTo(AnomalyScores, MaxAnomalies) }

InitDrill ==
    /\ pc = "drillstart"
    /\ input \in AnomalyLists
    /\ anomalyResult = [status |-> "done", anomalies |-> input,
                        residualStats |-> [mean |-> Rat(0), variance |-> Rat(1)]]
    /\ output = "none"
    /\ queryIdx = 1
    /\ byDate = << >>
    /\ seenTimestamps = {}
    /\ firstSeen = << >>
    /\ repeated = FALSE
    /\ teslaDaily = << >>
    /\ weatherDaily = << >>
    /\ historySaunaDays = {}
    /\ classifiedDays = << >>
    /\ suspectDays = << >>
    /\ suspectIdx = 1
    /\ fetched = << >>
    /\ model = [status |-> "none"]
    /\ topAnomalies = << >>
    /\ drillIdx = 1
    /\ drilldowns = << >>
    /\ exitCode = "running"
    /\ written = {}
    /\ cachedRun = FALSE
    /\ calls = << >>
    /\ pending = {}
    /\ lastOutcome = "none"
    /\ firstRun = [status |-> "none"]
    /\ call = [fn |-> "none"]

\* drillDownAnomalies(anomalyResult.anomalies) up to its first await: the
\* list is sorted in place, its first five are kept, and the fetch for the
\* first of them is started.
BeginDrillDown ==
    /\ pc = "drillstart"
    /\ \E sorted \in { SortByExtremity(anomalyResult.anomalies) } :
          /\ anomalyResult' = [anomalyResult EXCEPT !.anomalies = sorted]
          /\ topAnomalies' = SubSeq(sorted, 1, Min(TOP_ANOMALIES, Len(sorted)))
          /\ pc' = IF Len(sorted) = 0 THEN "report" ELSE "drilldown"
          /\ IF Len(sorted) = 0
             THEN UNCHANGED <<calls, pending>>
             ELSE /\ calls' = Issue(calls, "anomaly", sorted[1].date)
                  /\ pending' = pending \cup { Len(calls) + 1 }
    /\ drillIdx' = 1
    /\ drilldowns' = << >>
    /\ lastOutcome' = "none"
    /\ UNCHANGED <<teslaDaily, weatherDaily, historySaunaDays, classifiedDays, suspectDays,
                   suspectIdx, fetched, model, exitCode, written, input, output>>
    /\ UNCHANGED collectVars
    /\ UNCHANGED fixedVars

NextDrill == BeginDrillDown \/ DrillDown

SpecDrill == InitDrill /\ [][NextDrill]_vars

-----------------------------------------------------------------------------
(* C17 *)

\* The dates for which drillDownAnomalies has started a fetch.
DrillTargets == { calls[i].target : i \in { j \in 1..Len(calls) : calls[j].kind = "anomaly" } }

\* |zScore| of an anomaly of the list handed over, as a fraction.
Extremity(a) == RAbs(a.zScore.dev)

\* C17: drillDownAnomalies starts at most 5 fetches, each for another
\* anomaly of the list; when it returns it has fetched min(5, n) of the n
\* anomalies, and no anomaly it skipped has a larger |zScore| than one it
\* fetched.
C17_TopFiveFetched ==
    /\ Cardinality({ i \in 1..Len(calls) : calls[i].kind = "anomaly" }) <= 5
    /\ Cardinality(DrillTargets) = Len(calls)
    /\ DrillTargets \subseteq { input[i].date : i \in 1..Len(input) }
    /\ pc = "report" =>
          /\ Len(calls) = Min(5, Len(input))
          /\ \A i, j \in 1..Len(input) :
                (input[i].date \in DrillTargets /\ input[j].date \notin DrillTargets)
                    => ~RLess(Extremity(input[i]), Extremity(input[j]))

\* Six anomalies were handed over, the first the least extreme; the five
\* others were fetched and the first was skipped.
C17_Witness ==
    /\ pc = "report"
    /\ Len(input) = 6
    /\ Len(calls) = 5
    /\ input[1].date \notin DrillTargets
    /\ \A i \in 2..6 : RLess(Extremity(input[1]), Extremity(input[i]))

-----------------------------------------------------------------------------
(* One external call on its own: callTeslaMCP (lines 68-150) and httpGet
   (lines 156-170), from the creation of the promise on *)

TIMEOUT_MS == 60000         \* const TIMEOUT_MS = 60000
POLL_MS == 200              \* setInterval(..., 200)

\* A line the telemetry server writes to stdout: the reply to initialize
\* (id 0 with a result); a reply with id 1 whose result.content[0].text is
\* JSON, is not JSON, or is missing; any other line.
ServerLines == { "init", "content", "badtext", "nocontent", "noise" }

\* resolve / reject: a settled promise stays as it is.
Settle(c, how) == IF c.settled = "pending" THEN [c EXCEPT !.settled = how] ELSE c

InitCall ==
    /\ pc = "call"
    /\ call \in { [fn |-> "callTeslaMCP", settled |-> "pending", initialized |-> FALSE,
                    polling |-> FALSE, sent |-> FALSE, elapsed |-> 0,
                    response |-> "none", alive |-> TRUE],
                   [fn |-> "httpGet", settled |-> "pending", chunks |-> 0, ended |-> FALSE] }
    /\ input = "none"
    /\ output = "none"
    /\ queryIdx = 1
    /\ byDate = << >>
    /\ seenTimestamps = {}
    /\ firstSeen = << >>
    /\ repeated = FALSE
    /\ teslaDaily = << >>
    /\ weatherDaily = << >>
    /\ historySaunaDays = {}
    /\ classifiedDays = << >>
    /\ suspectDays = << >>
    /\ suspectIdx = 1
    /\ fetched = << >>
    /\ model = [status |-> "none"]
    /\ anomalyResult = [status |-> "none"]
    /\ topAnomalies = << >>
    /\ drillIdx = 1
    /\ drilldowns = << >>
    /\ exitCode = "running"
    /\ written = {}
    /\ cachedRun = FALSE
    /\ calls = << >>
    /\ pending = {}
    /\ lastOutcome = "none"
    /\ firstRun = [status |-> "none"]

\* Everything but the call followed.
restVars == <<pc, queryIdx, byDate, seenTimestamps, firstSeen, repeated, teslaDaily,
              weatherDaily, historySaunaDays, classifiedDays, suspectDays, suspectIdx,
              fetched, model, anomalyResult, topAnomalies, drillIdx, drilldowns,
              exitCode, written, cachedRun, calls, pending, lastOutcome, firstRun,
              input, output>>

\* server.stdout.on('data'): a complete line arrives.  A reply is pushed to
\* responses (find returns the first with id 1); the reply to initialize
\* sets initialized.
ServerWrites ==
    /\ call.fn = "callTeslaMCP"
    /\ call.alive
    /\ \E line \in ServerLines :
          call' = [call EXCEPT
                      !.initialized = @ \/ line = "init",
                      !.response = IF @ = "none" /\ line \in { "content", "badtext", "nocontent" }
                                   THEN line ELSE @]
    /\ UNCHANGED restVars

\* server.on('error', reject)
ServerError ==
    /\ call.fn = "callTeslaMCP"
    /\ call.settled = "pending"
    /\ call' = Settle(call, "rejected")
    /\ UNCHANGED restVars

\* The callback of setTimeout(..., 2500): the tool call is written and the
\* polling starts (startTime = Date.now()).
SendToolCall ==
    /\ call.fn = "callTeslaMCP"
    /\ ~call.sent
    /\ call' = [call EXCEPT !.sent = TRUE, !.polling = TRUE, !.elapsed = 0]
    /\ UNCHANGED restVars

\* The callback of setInterval(..., 200).
Poll ==
    /\ call.fn = "callTeslaMCP"
    /\ call.polling
    /\ LET now == call.elapsed + POLL_MS
           stopped == [call EXCEPT !.elapsed = now, !.polling = FALSE, !.alive = FALSE]
       IN  call' = IF call.response # "none"
                   THEN Settle(stopped, IF call.response = "content"
                                        THEN "resolved" ELSE "rejected")
                   ELSE IF now > TIMEOUT_MS THEN Settle(stopped, "rejected")
                   ELSE [call EXCEPT !.elapsed = now]
    /\ UNCHANGED restVars

\* res.on('data', chunk => data += chunk)
HttpData ==
    /\ call.fn = "httpGet"
    /\ ~call.ended
    /\ call.settled = "pending"
    /\ call.chunks < MaxChunks
    /\ call' = [call EXCEPT !.chunks = @ + 1]
    /\ UNCHANGED restVars

\* res.on('end'): JSON.parse(data) gives the value or throws.
HttpEnd ==
    /\ call.fn = "httpGet"
    /\ ~call.ended
    /\ call.settled = "pending"
    /\ \E parses \in BOOLEAN :
          call' = Settle([call EXCEPT !.ended = TRUE],
                         IF parses THEN "resolved" ELSE "rejected")
    /\ UNCHANGED restVars

\* https.get(...).on('error', reject)
HttpError ==
    /\ call.fn = "httpGet"
    /\ ~call.ended
    /\ call.settled = "pending"
    /\ call' = Settle(call, "rejected")
    /\ UNCHANGED restVars

NextCall ==
    \/ ServerWrites
    \/ ServerError
    \/ SendToolCall
    \/ Poll
    \/ HttpData
    \/ HttpEnd
    \/ HttpError

\* The timers of the process fire; what the remote side does, and when, is
\* not up to the process.
SpecCall ==
    InitCall /\ [][NextCall]_vars /\ WF_vars(SendToolCall) /\ WF_vars(Poll)

-----------------------------------------------------------------------------
(* C19 *)

\* C19: every external call settles, with a result or an error, whatever
\* the remote side does: also when it never sends a response.
C19_EveryCallSettles == <>(call.settled # "pending")

-----------------------------------------------------------------------------
(* The residual statistics on their own *)

ResidualValues == { -7, -4, 0, 2, 9 }

\* Mean 0 and standard deviation 5: 9 scores 1.8 and -4 scores -0.8.
ExampleResiduals == << 9, -4, -7, 6, -8, 1, 1, 1, 1, 0 >>

\* Mean 4 and standard deviation 6: 13 scores exactly 1.5.
ThresholdResiduals == Repeat(13, 4) \o Repeat(0, 9)

\* The residuals (kWh) of at least 10 days: a free head and a constant tail.
ResidualLists ==
    { head \o Repeat(tail, MIN_NORMAL_DAYS - Len(head)) :
        head \in { s \in SeqsUpTo(ResidualValues, MaxResiduals) : Len(s) = MaxResiduals },
        tail \in { 0, 2 } }
    \cup { ExampleResiduals, ThresholdResiduals }

InitAnomaly ==
    /\ pc = "score"
    /\ input \in ResidualLists
    /\ output = "none"
    /\ Idle

\* detectAnomalies from the residual statistics on, for the residuals given.
ScoreList ==
    /\ pc = "score"
    /\ output' = ScoreResiduals(Array([i \in 1..Len(input) |-> Rat(input[i])]))
    /\ pc' = "scored"
    /\ UNCHANGED input
    /\ UNCHANGED idleVars

NextAnomaly == ScoreList

SpecAnomaly == InitAnomaly /\ [][NextAnomaly]_vars

-----------------------------------------------------------------------------
(* C9 *)

\* Sum of the elements of a list of integers, and of their squares.
SumList(xs) == SumOver(1..Len(xs), xs)

SumSquares(xs) == SumOver(1..Len(xs), [i \in 1..Len(xs) |-> xs[i] * xs[i]])

\* With n residuals r of sum S, r - mean is Deviation / n and the squared
\* standard deviation is Spread / n^2.
Deviation(xs, i) == Len(xs) * xs[i] - SumList(xs)

Spread(xs) == Len(xs) * SumSquares(xs) - SumList(xs) * SumList(xs)

\* |r - mean| / std > 1.5, for a positive std
ExceedsOneAndAHalf(xs, i) ==
    4 * Deviation(xs, i) * Deviation(xs, i) > 9 * Spread(xs)

\* The z-score z equals the fraction num / den (den > 0).
ZEquals(z, num, den) ==
    /\ RSign(z.dev) = (IF num > 0 THEN 1 ELSE IF num < 0 THEN -1 ELSE 0)
    /\ RMul(Rat(den * den), RSquare(z.dev)) = RMul(Rat(num * num), z.variance)

\* C9: a day is flagged exactly when the residuals' standard deviation is
\* positive and |residual - mean| / std exceeds 1.5 strictly; its direction
\* is HIGH exactly when its z-score is positive; with a standard deviation
\* of 0 every z-score is 0 and no day is flagged.  With mean 0 and standard
\* deviation 5, a residual of 9 scores 1.8 and is flagged HIGH, and one of
\* -4 scores -0.8 and is not flagged.
C9_AnomalyFlagging ==
    pc = "scored" =>
        /\ Len(output) = Len(input)
        /\ \A i \in 1..Len(input) :
              /\ output[i].flagged <=> (Spread(input) > 0 /\ ExceedsOneAndAHalf(input, i))
              /\ (output[i].direction = "HIGH") <=> (Spread(input) > 0 /\ Deviation(input, i) > 0)
              /\ Spread(input) > 0 =>
                    /\ output[i].zScore.dev = Norm(Deviation(input, i), Len(input))
                    /\ output[i].zScore.variance = Norm(Spread(input), Len(input) * Len(input))
              /\ Spread(input) = 0 =>
                    /\ ZEquals(output[i].zScore, 0, 1)
                    /\ ~output[i].flagged
        /\ input = ExampleResiduals =>
              /\ SumList(input) = 0 /\ Spread(input) = 25 * Len(input) * Len(input)
              /\ ZEquals(output[1].zScore, 18, 10)
              /\ output[1].flagged /\ output[1].direction = "HIGH"
              /\ ZEquals(output[2].zScore, -8, 10)
              /\ ~output[2].flagged

\* The residuals of mean 0 and standard deviation 5 have been scored: the
\* day of residual 9 is flagged HIGH and the day of residual -4 is not flagged.
C9_Witness ==
    /\ pc = "scored"
    /\ input = ExampleResiduals
    /\ output[1].flagged
    /\ output[1].direction = "HIGH"
    /\ ~output[2].flagged

-----------------------------------------------------------------------------
(* Step 6: benchmarkPassiveHouse, lines 846-929: the baseload and the
   heating intensity *)

CLEAR_JUMP_WH == 10000      \* maxJump > 10, in Wh
FALLBACK_BASELOAD == 12     \* baseloadKwh = 12

\* d.type === 'out-of-town' && d.homeKwh > 0
IsAwayWithConsumption(d) == d.type = "out-of-town" /\ d.homeKwh > 0

\* The loop over the day-over-day jumps from position i on (positions from
\* 0 as in the code; days[i + 1] is the code's outOfTownDays[i]).
RECURSIVE JumpLoop(_, _, _, _)
JumpLoop(days, i, maxJump, maxJumpIdx) ==
    IF i >= Len(days) THEN [maxJump |-> maxJump, maxJumpIdx |-> maxJumpIdx]
    ELSE LET jump == days[i + 1].homeKwh - days[i].homeKwh
         IN  IF jump > maxJump THEN JumpLoop(days, i + 1, jump, i)
             ELSE JumpLoop(days, i + 1, maxJump, maxJumpIdx)

\* The split with a jump of exactly 10 kWh taken for a switchover.
SplitIndexInclusive(days) ==
    LET j == JumpLoop(days, 1, 0, -1)
    IN  IF j.maxJump >= CLEAR_JUMP_WH /\ j.maxJumpIdx > 0
        THEN [idx |-> j.maxJumpIdx, switchoverDate |-> days[j.maxJumpIdx + 1].date]
        ELSE [idx |-> Len(days) \div 2, switchoverDate |-> 0]

\* The number of days of the eco-mode slice and the switchover date (0 for
\* null), for a non-empty list of away days in date order.
SplitIndex(days) ==
    LET j == JumpLoop(days, 1, 0, -1)
    IN  IF j.maxJump > CLEAR_JUMP_WH /\ j.maxJumpIdx > 0
        THEN [idx |-> j.maxJumpIdx, switchoverDate |-> days[j.maxJumpIdx + 1].date]
        ELSE [idx |-> Len(days) \div 2, switchoverDate |-> 0]

\* [...ecoModeDays].sort((a, b) => a.homeKwh - b.homeKwh): a stable sort.
RECURSIVE SortByHomeKwh(_)
SortByHomeKwh(a) ==
    IF a = << >> THEN << >>
    ELSE LET least == { i \in 1..Len(a) : \A j \in 1..Len(a) : a[i].homeKwh <= a[j].homeKwh }
             first == CHOOSE i \in least : \A j \in least : i <= j
         IN  << a[first] >>
             \o SortByHomeKwh(SubSeq(a, 1, first - 1) \o SubSeq(a, first + 1, Len(a)))

\* sorted.slice(0, 3)
SelectedDaysBottomThree(sorted) == SubSeq(sorted, 1, Min(3, Len(sorted)))

\* sorted.slice(0, 2)
SelectedDays(sorted) == SubSeq(sorted, 1, Min(2, Len(sorted)))

\* The baseload in kWh for the eco-mode days given.
Baseload(ecoModeDays) ==
    IF Len(ecoModeDays) >= 2
    THEN LET selectedDays == SelectedDays(SortByHomeKwh(ecoModeDays))
         IN  Mean(Array([i \in 1..Len(selectedDays) |-> Kwh(selectedDays[i].homeKwh)]))
    ELSE IF Len(ecoModeDays) > 0
    THEN Kwh(ecoModeDays[1].homeKwh)
    ELSE Rat(FALLBACK_BASELOAD)

\* day.adjustedKwh - baseloadKwh
HeatingKwhSigned(day, baseloadKwh) == RSub(Kwh(day.adjustedKwh), baseloadKwh)

\* Math.max(0, day.adjustedKwh - baseloadKwh)
HeatingKwh(day, baseloadKwh) ==
    LET diff == RSub(Kwh(day.adjustedKwh), baseloadKwh)
    IN  IF RSign(diff) > 0 THEN diff ELSE Rat(0)

\* benchmarkPassiveHouse up to heatingKwhPerHDD, with the fields of the
\* returned object that follow from it.
benchmarkPassiveHouse(classified) ==
    LET outOfTownDays == SortAnomaliesByDate(SelectSeq(classified, IsAwayWithConsumption))
        n == Len(outOfTownDays)
        split == IF n > 0 THEN SplitIndex(outOfTownDays) ELSE [idx |-> 0, switchoverDate |-> 0]
        ecoModeDays == SubSeq(outOfTownDays, 1, split.idx)
        heatedVacationDays == SubSeq(outOfTownDays, split.idx + 1, n)
        baseloadKwh == Baseload(ecoModeDays)
        normalDays == SelectSeq(classified, Qualifies)
        totalHeatingKwh == RSum([i \in 1..Len(normalDays) |->
                                    HeatingKwh(normalDays[i], baseloadKwh)], Len(normalDays))
        totalHDD == SumOver(1..Len(normalDays), [i \in 1..Len(normalDays) |-> normalDays[i].hdd])
    IN  [baseloadKwh |-> baseloadKwh,
         switchoverDate |-> split.switchoverDate,
         ecoModeDaysList |-> ecoModeDays,
         heatedVacationDaysList |-> heatedVacationDays,
         totalHeatingKwh |-> totalHeatingKwh,
         totalHDD |-> totalHDD,
         analysisDays |-> Len(normalDays),
         heatingKwhPerHDD |-> IF totalHDD > 0 THEN RDiv(totalHeatingKwh, Rat(totalHDD))
                              ELSE Rat(0)]

\* Daily consumption (Wh) of an away day: none, 11.5, 11.7, 21.5 and 40 kWh.
AwayEnergies == { 0, 11500, 11700, 21500, 40000 }

\* The normal days of a run, as pairs of consumption (Wh) and mean
\* temperature (F): none; one day of 62 kWh at 5 F; that day and a day of
\* 10 kWh at 65 F; one day of 30 kWh at 65 F.
NormalDayChoices ==
    { << >>, << <<62000, 5>> >>, << <<62000, 5>>, <<10000, 65>> >>, << <<30000, 65>> >> }

\* What classifyDays returns for away days from 2025-12-13 on with the
\* consumptions given, followed by normal days from 2026-01-03 on.
BenchmarkDays(away, normal) ==
    LET tesla == [i \in 1..Len(away) |->
                     [date |-> OUT_OF_TOWN_START + i - 1, homeEnergy |-> away[i],
                      intervalCount |-> 288]]
                 \o [i \in 1..Len(normal) |->
                        [date |-> OUT_OF_TOWN_END + i, homeEnergy |-> normal[i][1],
                         intervalCount |-> 288]]
        weather == [i \in 1..Len(away) |->
                       [date |-> OUT_OF_TOWN_START + i - 1, tempMin |-> 20, tempMax |-> 40,
                        tempMean |-> 30, windMax |-> 0, windGustMax |-> 0]]
                   \o [i \in 1..Len(normal) |->
                          [date |-> OUT_OF_TOWN_END + i, tempMin |-> normal[i][2] - 5,
                           tempMax |-> normal[i][2] + 5, tempMean |-> normal[i][2],
                           windMax |-> 0, windGustMax |-> 0]]
    IN  classifyDays(tesla, weather, {})

InitBenchmark ==
    /\ pc = "benchmark"
    /\ \E away \in SeqsUpTo(AwayEnergies, MaxAway) :
       \E normal \in NormalDayChoices :
          input = BenchmarkDays(away, normal)
    /\ output = "none"
    /\ Idle

\* main: const benchmark = benchmarkPassiveHouse(classifiedDays, model)
Benchmark ==
    /\ pc = "benchmark"
    /\ output' = benchmarkPassiveHouse(input)
    /\ pc' = "benchmarked"
    /\ UNCHANGED input
    /\ UNCHANGED idleVars

NextBenchmark == Benchmark

SpecBenchmark == InitBenchmark /\ [][NextBenchmark]_vars

\* The away days with consumption of the list under study, and their
\* consumptions in Wh.
AwayDays == SelectSeq(input, IsAwayWithConsumption)

AwayWh(days) == { days[i].homeKwh : i \in 1..Len(days) }

-----------------------------------------------------------------------------
(* C21 *)

\* Twice the sum of the two smallest consumptions of a list of two or more
\* days is the least value of homeKwh[i] + homeKwh[j] over positions i # j.
TwoLowestSum(days) ==
    LET pairs == { q \in (1..Len(days)) \X (1..Len(days)) : q[1] # q[2] }
        sums == { days[q[1]].homeKwh + days[q[2]].homeKwh : q \in pairs }
    IN  CHOOSE x \in sums : \A y \in sums : x <= y

\* C21: with two or more eco-mode days the baseload is the mean of the two
\* lowest consumptions among them (11.5 and 11.7 kWh give 11.6); with one
\* eco-mode day it is the consumption of that day.
C21_BaseloadFromLowestDays ==
    pc = "benchmarked" =>
        LET eco == output.ecoModeDaysList
        IN  /\ Len(eco) >= 2 => output.baseloadKwh = Norm(TwoLowestSum(eco), 2000)
            /\ Len(eco) = 1 => output.baseloadKwh = Kwh(eco[1].homeKwh)
            /\ (Len(eco) = 2 /\ AwayWh(eco) = { 11500, 11700 })
                  => output.baseloadKwh = << 58, 5 >>

\* Three eco-mode days of 21.5, 11.7 and 11.5 kWh, before a switchover to
\* 40 kWh, have given a baseload of 11.6 kWh.
C21_Witness ==
    /\ pc = "benchmarked"
    /\ Len(output.ecoModeDaysList) = 3
    /\ output.ecoModeDaysList[1].homeKwh = 21500
    /\ AwayWh(output.ecoModeDaysList) = { 11500, 11700, 21500 }
    /\ output.baseloadKwh = << 58, 5 >>

-----------------------------------------------------------------------------
(* C22 *)

\* The qualifying normal days of the list under study.
BenchmarkNormalDays == SelectSeq(input, Qualifies)

\* The sum over the days of max(0, adjustedKwh - num/den), in units of
\* 1 / (1000 den) kWh.
HeatingUnits(days, num, den) ==
    SumOver(1..Len(days),
            [i \in 1..Len(days) |-> Max(0, days[i].adjustedKwh * den - 1000 * num)])

\* C22: heatingKwhPerHDD is the sum over the qualifying normal days of
\* max(0, adjustedKwh - baseloadKwh), divided by the sum of their degree
\* days; it is 0 when that sum is 0 and it is never negative.  A day of
\* 62.0 kWh and 60 degree days with a baseload of 11.6 kWh adds 50.4 and 60.
C22_HeatingIntensity ==
    pc = "benchmarked" =>
        LET days == BenchmarkNormalDays
            b == output.baseloadKwh
            units == HeatingUnits(days, b[1], b[2])
            hdd == SumOver(1..Len(days), [i \in 1..Len(days) |-> days[i].hdd])
        IN  /\ output.totalHeatingKwh = Norm(units, 1000 * b[2])
            /\ output.totalHDD = hdd
            /\ hdd > 0 => output.heatingKwhPerHDD = Norm(units, 1000 * b[2] * hdd)
            /\ hdd = 0 => output.heatingKwhPerHDD = Rat(0)
            /\ RSign(output.heatingKwhPerHDD) >= 0
            /\ (b = << 58, 5 >> /\ Len(days) = 1 /\ days[1].adjustedKwh = 62000
                    /\ days[1].hdd = 60)
                  => /\ output.totalHeatingKwh = << 252, 5 >>
                     /\ output.totalHDD = 60

\* With a baseload of 11.6 kWh, a day of 62 kWh and 60 degree days and a
\* day of 10 kWh and no degree days have given 50.4 kWh over 60 degree days.
C22_Witness ==
    /\ pc = "benchmarked"
    /\ output.baseloadKwh = << 58, 5 >>
    /\ output.analysisDays = 2
    /\ output.totalHeatingKwh = << 252, 5 >>
    /\ output.totalHDD = 60
    /\ output.heatingKwhPerHDD = << 21, 25 >>

-----------------------------------------------------------------------------
(* C26 *)

\* The day-over-day jumps (Wh) of a list of days.
Jumps(days) == [i \in 1..(Len(days) - 1) |-> days[i + 1].homeKwh - days[i].homeKwh]

\* C26: the away days with consumption, in date order, are the eco-mode
\* days followed by the heated days.  When the largest day-over-day jump
\* exceeds 10 kWh the heated days start at the (first) day of that jump,
\* which is the switchover date; else the eco-mode days are the first
\* floor(n/2) days and no switchover date is reported.
C26_AwaySplit ==
    pc = "benchmarked" =>
        LET away == AwayDays
            n == Len(away)
            eco == output.ecoModeDaysList
            heated == output.heatedVacationDaysList
            jumps == Jumps(away)
            clear == { i \in 1..(n - 1) : jumps[i] > CLEAR_JUMP_WH
                                          /\ \A j \in 1..(n - 1) : jumps[j] <= jumps[i] }
        IN  /\ eco \o heated = away
            /\ \A i \in 1..(n - 1) : away[i].date < away[i + 1].date
            /\ clear # {} =>
                  /\ Len(eco) = CHOOSE i \in clear : \A j \in clear : i <= j
                  /\ output.switchoverDate = heated[1].date
            /\ clear = {} =>
                  /\ Len(eco) = n \div 2
                  /\ output.switchoverDate = 0

\* Away days of 11.5, 11.7, 40 and 21.5 kWh have been split at the third
\* day, 2025-12-15.
C26_Witness ==
    /\ pc = "benchmarked"
    /\ Len(AwayDays) = 4
    /\ Len(output.ecoModeDaysList) = 2
    /\ output.heatedVacationDaysList[1].homeKwh = 40000
    /\ output.switchoverDate = OUT_OF_TOWN_START + 2

-----------------------------------------------------------------------------
(* C27 *)

\* The baseloads (kWh) that one or two of the days given yield.
BaseloadsFrom(days) ==
    { Kwh(days[i].homeKwh) : i \in 1..Len(days) }
    \cup { Norm(days[i].homeKwh + days[j].homeKwh, 2000) :
             i \in 1..Len(days), j \in 1..Len(days) }

\* C27: whenever at least one away day with consumption exists, the
\* baseload is computed from the consumption of away days; the fixed 12 kWh
\* is used only when there is no such day.
C27_FallbackOnlyWithoutAwayDays ==
    pc = "benchmarked" =>
        /\ Len(AwayDays) >= 1 => output.baseloadKwh \in BaseloadsFrom(AwayDays)
        /\ Len(AwayDays) = 0 => output.baseloadKwh = Rat(FALLBACK_BASELOAD)

-----------------------------------------------------------------------------
(* findConsecutiveRuns on its own, lines 403-406 and 432-455 *)

\* home_energy (Wh) of an interval: below, at and above the 1000 Wh of the
\* filter.
RunEnergies == { 200, 1000, 1100, 1300 }

\* An interval either has the timestamp of the one before it or the next one.
TimestampSteps == { 0, 1 }

\* A series in timestamp order for the intervals given as pairs of a
\* timestamp step and an energy.
StepSeries(date, intervals) ==
    [i \in 1..Len(intervals) |->
        [timestamp |-> [date |-> date,
                        slot |-> 1 + SumOver(2..i, [k \in 2..i |-> intervals[k][1]])],
         home_energy |-> intervals[i][2]]]

InitRuns ==
    /\ pc = "runs"
    /\ \E intervals \in SeqsUpTo(TimestampSteps \X RunEnergies, MaxIntervals) :
          input = StepSeries(66, intervals)
    /\ output = "none"
    /\ Idle

\* detectSaunaFromTesla, lines 405-406: the filter and findConsecutiveRuns.
FindRuns ==
    /\ pc = "runs"
    /\ output' = findConsecutiveRuns(HighPowerIntervals(input), input)
    /\ pc' = "ran"
    /\ UNCHANGED input
    /\ UNCHANGED idleVars

NextRuns == FindRuns

SpecRuns == InitRuns /\ [][NextRuns]_vars

-----------------------------------------------------------------------------
(* C24 *)

\* C24: for any series in series order, repeated timestamps included,
\* maxLength is the length of the longest block of adjacent intervals that
\* are each above 1000 Wh, and totalWh is the summed energy of the earliest
\* block of that length.
C24_RunsOfTheSeries ==
    pc = "ran" =>
        /\ output.maxLength = LongestRun(input)
        /\ output.totalWh = LongestRunEnergy(input)

-----------------------------------------------------------------------------
(* predictConsumption on its own, lines 678-698, for a model that
   buildModel returned and a day the model was fitted on *)

\* The days of a run from 2026-01-03 on, each given as
\* << homeEnergy (Wh), tempMin, tempMean, windMax, windGustMax >>.
PredictDays(rows) ==
    classifyDays([i \in 1..Len(rows) |->
                     [date |-> OUT_OF_TOWN_END + i, homeEnergy |-> rows[i][1],
                      intervalCount |-> 288]],
                 [i \in 1..Len(rows) |->
                     [date |-> OUT_OF_TOWN_END + i, tempMin |-> rows[i][2],
                      tempMax |-> 70, tempMean |-> rows[i][3], windMax |-> rows[i][4],
                      windGustMax |-> rows[i][5]]],
                 {})

\* Six days between 5 and 20 F whose consumption is 30 kWh at 6 F and
\* 20 kWh at 7 F plus 10 kWh per mph of wind, and five days of 5 F.
FittedSegmentRows(extreme) ==
    << <<30000, 6, 65, 0, 0>>, <<20000, 7, 65, 0, 0>>, <<40000, 6, 65, 1, 0>>,
       <<30000, 7, 65, 1, 1>>, <<30000, 6, 65, 0, 1>>, <<20000, 7, 65, 0, 0>> >>
    \o [i \in 1..5 |-> <<extreme[i], 5, 65, 0, 0>>]

\* Six days between 5 and 20 F that all consumed 30 kWh, and five days of 5 F.
FlatSegmentRows(extreme) ==
    << <<30000, 6, 65, 0, 0>>, <<30000, 7, 65, 0, 0>>, <<30000, 6, 65, 1, 0>>,
       <<30000, 7, 65, 1, 1>>, <<30000, 6, 65, 0, 1>>, <<30000, 7, 65, 0, 0>> >>
    \o [i \in 1..5 |-> <<extreme[i], 5, 65, 0, 0>>]

\* Three days of at most 5 F, of which one night reached 0 F, among days
\* of 6 F; the consumption is 20 kWh plus 2 kWh per degree that the night
\* before was below 6 F.
PriorDayRows(gusts) ==
    [i \in 1..11 |->
        LET tempMin == CASE i = 4 -> 0 [] i \in {5, 8} -> 5 [] OTHER -> 6
            prior == CASE i = 5 -> 0 [] i \in {6, 9} -> 5 [] OTHER -> 6
        IN  <<20000 + 2000 * (6 - prior), tempMin, 65, 0, gusts[i]>>]

ExtremeConsumptions ==
    { << 40000, 40000, 40000, 40000, 40000 >>, << 40000, 60000, 40000, 60000, 40000 >> }

GustChoices ==
    { [i \in 1..11 |-> IF i % 4 = k THEN 1 ELSE 0] : k \in 0..1 }

PredictRows ==
    { FittedSegmentRows(e) : e \in ExtremeConsumptions }
    \cup { FlatSegmentRows(e) : e \in ExtremeConsumptions }
    \cup { PriorDayRows(g) : g \in GustChoices }

InitPredict ==
    /\ pc = "predict"
    /\ \E rows \in PredictRows :
       \E built \in { buildModel(PredictDays(rows)) } :
       \E i \in 1..Len(rows) :
          input = [model |-> built.result, day |-> built.days[i]]
    /\ output = "none"
    /\ Idle

\* detectAnomalies, line 713: day.expectedKwh = predictConsumption(model, day)
Predict ==
    /\ pc = "predict"
    /\ output' = predictConsumption(input.model, input.day)
    /\ pc' = "predicted"
    /\ UNCHANGED input
    /\ UNCHANGED idleVars

NextPredict == Predict

SpecPredict == InitPredict /\ [][NextPredict]_vars

\* The segment whose filter the day matches.
MatchingSegment(m, day) ==
    m.segments[CHOOSE k \in 1..Len(m.segments) : SegmentFilter(k, day)]

\* The segment holds a regression that was fitted: it had 4 days or more
\* and the normal equations had a solution.
FittedSegment(seg) ==
    /\ "useMean" \notin DOMAIN seg.model
    /\ seg.model.coefficients # << >>

\* a * tempMin + b * windMax + c
SegmentFormula(seg, day) ==
    RAdd(RAdd(RMul(seg.model.a, Rat(day.tempMin)),
              RMul(seg.model.b, Rat(OrZero(day, "windMax")))), seg.model.c)

\* No segment is used: the lines of predictConsumption after its loop run.
FallsThrough(m, day) ==
    \A k \in 1..Len(m.segments) :
        ~(SegmentFilter(k, day) /\ RSign(m.segments[k].model.rSquared) > 0)

featureNames == << "tempMin", "hdd", "windMax", "windGustMax", "thermalMassLag",
                   "priorDayTempMin", "isWeekend" >>

\* The intercept plus, for each feature of the fit, the coefficient times
\* the value that the feature's getter put in the day's row of the design
\* matrix (fitLinearRegression, line 600).
DesignRowPrediction(g, day) ==
    LET c == g.coefficients
    IN  RAdd(IF "intercept" \in DOMAIN c THEN c.intercept ELSE Rat(0),
             RSum([j \in 1..Len(featureNames) |->
                      IF featureNames[j] \in DOMAIN c
                      THEN RMul(c[featureNames[j]], FeatureValue(featureNames[j], day))
                      ELSE Rat(0)], Len(featureNames)))

-----------------------------------------------------------------------------
(* C25 *)

\* C25: the prediction for a day is the two-feature formula of the day's
\* segment exactly when that segment holds a fitted regression; for a
\* segment that holds its mean instead, or an unsolved fit, it is what the
\* selected global model gives, and not the segment mean.
C25_SegmentOrGlobal ==
    pc = "predicted" =>
        LET seg == MatchingSegment(input.model, input.day)
            global == predictConsumption([input.model EXCEPT !.segments = << >>], input.day)
        IN  /\ FittedSegment(seg) => output = SegmentFormula(seg, input.day)
            /\ ~FittedSegment(seg) => output = global

-----------------------------------------------------------------------------
(* C30 *)

\* C30: when no segment is used, the prediction for a day the global model
\* was fitted on is the intercept plus the sum of each coefficient times
\* the value the day's row held for that feature in the fit; a value of 0
\* counts as 0.
C30_PredictsFromDesignRow ==
    (pc = "predicted" /\ FallsThrough(input.model, input.day)) =>
        output = DesignRowPrediction(input.model.globalModel, input.day)

-----------------------------------------------------------------------------
(* analyzeHourlyPatterns on its own, lines 804-840, for the hourly totals
   that aggregateToHourly returns (one entry per hour, by ascending hour) *)

RAMP_FLOOR_WH == 2000       \* last > 2000
SURGE_FLOOR_WH == 3000      \* morningMax > 3000
HIGH_HOUR_WH == 3000        \* h.totalWh > 3000
PEAK_FLOOR_WH == 4000       \* peakHour.totalWh > 4000
MIN_OVERNIGHT_HOURS == 4    \* overnight.length >= 4
MIN_HIGH_HOURS == 6         \* highHours.length >= 6

IsOvernight(h) == h.hour >= 0 /\ h.hour < 6

IsMorning(h) == h.hour >= 6 /\ h.hour < 9

IsHighHour(h) == h.totalWh > HIGH_HOUR_WH

\* hourly.reduce((max, h) => h.totalWh > max.totalWh ? h : max, hourly[0])
RECURSIVE PeakHour(_, _)
PeakHour(hourly, max) ==
    IF hourly = << >> THEN max
    ELSE PeakHour(Tail(hourly), IF Head(hourly).totalWh > max.totalWh THEN Head(hourly) ELSE max)

\* The tags in the order they are pushed.  The peak tag
\* `peak-${hour}:00-${(totalWh / 1000).toFixed(1)}kWh` is held as its hour
\* and the number of tenths of a kWh that toFixed(1) prints.
analyzeHourlyPatterns(hourly) ==
    LET overnight == SelectSeq(hourly, IsOvernight)
        morning == SelectSeq(hourly, IsMorning)
        first == IF Len(overnight) > 0 THEN overnight[1].totalWh ELSE 0
        last == IF Len(overnight) > 0 THEN overnight[Len(overnight)].totalWh ELSE 0
        nightSum == SumOver(1..Len(overnight), [i \in 1..Len(overnight) |-> overnight[i].totalWh])
        morningMax == IF Len(morning) = 0 THEN 0
                      ELSE PeakHour(morning, [hour |-> -1, totalWh |-> 0]).totalWh
        ramp == /\ Len(overnight) >= MIN_OVERNIGHT_HOURS
                /\ 2 * last > 3 * first
                /\ last > RAMP_FLOOR_WH
        \* morningMax > nightAvg * 1.8, with nightAvg = nightSum / length or 0
        surge == /\ IF Len(overnight) > 0
                    THEN 5 * morningMax * Len(overnight) > 9 * nightSum
                    ELSE morningMax > 0
                 /\ morningMax > SURGE_FLOOR_WH
        sustained == Len(SelectSeq(hourly, IsHighHour)) >= MIN_HIGH_HOURS
        peak == IF hourly = << >> THEN [hour |-> -1, totalWh |-> 0]
                ELSE PeakHour(hourly, hourly[1])
    IN  (IF ramp THEN << [tag |-> "overnight-ramp"] >> ELSE << >>)
        \o (IF surge THEN << [tag |-> "morning-surge"] >> ELSE << >>)
        \o (IF sustained THEN << [tag |-> "sustained-high"] >> ELSE << >>)
        \o (IF peak.totalWh > PEAK_FLOOR_WH
            THEN << [tag |-> "peak", hour |-> peak.hour,
                     tenthsOfKwh |-> (peak.totalWh + 50) \div 100] >>
            ELSE << >>)

\* Hourly totals (Wh) of the first and of the last overnight hour, of the
\* hour from 06:00, of the six hours from 09:00, and of the hour from 18:00.
FirstHourWh == { 0, 1400, 2000 }
LastHourWh == { 2000, 2100, 3000, 3100 }
MorningWh == { 1000, 3500 }
DaytimeWh == { 1000, 3200 }
EveningWh == { 1000, 4600 }

\* Data for all six overnight hours, or for the first three only.
OvernightHours == { 3, 6 }

HourlyTotals(nights, first, last, morning, daytime, evening) ==
    [h \in 1..nights |->
        [hour |-> h - 1,
         totalWh |-> IF h = 1 THEN first ELSE IF h = nights THEN last ELSE 1000]]
    \o << [hour |-> 6, totalWh |-> morning] >>
    \o [h \in 1..6 |-> [hour |-> 8 + h, totalWh |-> daytime]]
    \o << [hour |-> 18, totalWh |-> evening] >>

InitPatterns ==
    /\ pc = "patterns"
    /\ \E nights \in OvernightHours, first \in FirstHourWh, last \in LastHourWh,
          morning \in MorningWh, daytime \in DaytimeWh, evening \in EveningWh :
          input = HourlyTotals(nights, first, last, morning, daytime, evening)
    /\ output = "none"
    /\ Idle

\* drillDownAnomalies, line 766: const patterns = analyzeHourlyPatterns(hourlyProfile)
AnalyzePatterns ==
    /\ pc = "patterns"
    /\ output' = analyzeHourlyPatterns(input)
    /\ pc' = "analyzed"
    /\ UNCHANGED input
    /\ UNCHANGED idleVars

NextPatterns == AnalyzePatterns

SpecPatterns == InitPatterns /\ [][NextPatterns]_vars

-----------------------------------------------------------------------------
(* C28 *)

Tags(patterns) == { patterns[i].tag : i \in 1..Len(patterns) }

\* C28: the overnight tag is emitted whenever the last overnight hour
\* (00:00-06:00) consumed at least 1.5 times the first overnight hour and
\* more than 2000 Wh, a ratio of exactly 1.5 included, whatever other tags
\* are emitted.
C28_OvernightRampAtRatio ==
    pc = "analyzed" =>
        LET overnight == SelectSeq(input, IsOvernight)
            first == overnight[1].totalWh
            last == overnight[Len(overnight)].totalWh
        IN  (Len(overnight) >= MIN_OVERNIGHT_HOURS /\ 2 * last >= 3 * first
                /\ last > RAMP_FLOOR_WH)
              => "overnight-ramp" \in Tags(output)

-----------------------------------------------------------------------------
(* classifyDays and detectSaunaFromTesla on their own, on runs with up to
   two candidates *)

DetectFirstDate == 60       \* 2025-12-30: four away days, then days at home
DetectDays == 12

\* Consumption (Wh) of the days that may stand out: an away day
\* (2026-01-01) and two days at home (2026-01-05, 2026-01-09).
StandOutEnergies == { 20000, 55000, 60000, 100000 }

DetectDataset(away, home1, home2) ==
    [i \in 1..DetectDays |->
        LET d == DetectFirstDate + i - 1
        IN  [date |-> d,
             homeEnergy |-> CASE d = 62 -> away [] d = 66 -> home1 [] d = 70 -> home2
                              [] OTHER -> 20000,
             intervalCount |-> 288]]

InitDetect ==
    /\ pc = "classify"
    /\ cachedRun = TRUE
    /\ calls = << >>
    /\ pending = {}
    /\ lastOutcome = "none"
    /\ firstRun = [status |-> "none"]
    /\ call = [fn |-> "none"]
    /\ queryIdx = Len(queries)
    /\ byDate = << >>
    /\ seenTimestamps = {}
    /\ firstSeen = << >>
    /\ repeated = FALSE
    /\ \E away \in StandOutEnergies, home1 \in StandOutEnergies, home2 \in StandOutEnergies :
          teslaDaily = DetectDataset(away, home1, home2)
    /\ weatherDaily = WeatherList(DetectFirstDate, DetectDays, 0)
    /\ historySaunaDays \in { {}, {66} }
    /\ classifiedDays = << >>
    /\ suspectDays = << >>
    /\ suspectIdx = 1
    /\ fetched = << >>
    /\ model = [status |-> "none"]
    /\ anomalyResult = [status |-> "none"]
    /\ topAnomalies = << >>
    /\ drillIdx = 1
    /\ drilldowns = << >>
    /\ exitCode = "running"
    /\ written = {}
    /\ input = "none"
    /\ output = "none"

NextDetect ==
    \/ ClassifyDays
    \/ BeginSaunaDetection
    \/ CheckSuspect

SpecDetect == InitDetect /\ [][NextDetect]_vars

-----------------------------------------------------------------------------
(* C29 *)

\* The list as classifyDays returned it, before the refinement.
BeforeRefinement == classifyDays(teslaDaily, weatherDaily, historySaunaDays)

\* The dates of the days of a list that are normal and whose consumption
\* is above 50 kWh and above mean + 1.5 stddev of the normal days (in whole
\* kWh; the comparison with the root is made by the squares).
SuspectDatesOf(days) ==
    LET normal == SelectSeq(days, IsNormal)
        kwh == [i \in 1..Len(normal) |-> normal[i].homeKwh \div 1000]
    IN  { normal[i].date : i \in { k \in 1..Len(normal) :
                                     /\ kwh[k] > MIN_SUSPECT_KWH
                                     /\ Deviation(kwh, k) > 0
                                     /\ ExceedsOneAndAHalf(kwh, k) } }

\* The dates for which a sub-daily series was requested, one per call.
SuspectCalls == SelectSeq(calls, LAMBDA c : c.kind = "suspect")

\* C29: the refinement inspects, and may change, only the days that were
\* normal and above max(mean + 1.5 stddev, 50) kWh when it started: every
\* other day keeps its record, each candidate is requested once whatever
\* happened to the candidates before it, and a day changes its type only
\* from normal to sauna.
C29_OnlySuspectsRefined ==
    pc \in { "check", "build" } =>
        LET before == BeforeRefinement
            suspects == SuspectDatesOf(before)
            requested == SuspectCalls
        IN  /\ Len(classifiedDays) = Len(before)
            /\ { suspectDays[i].date : i \in 1..Len(suspectDays) } = suspects
            /\ \A i \in 1..Len(requested) :
                  /\ requested[i].target \in suspects
                  /\ \A j \in 1..Len(requested) : requested[j].target = requested[i].target => j = i
            /\ DOMAIN fetched \subseteq suspects
            /\ pc = "build" => { requested[i].target : i \in 1..Len(requested) } = suspects
            /\ \A j \in 1..Len(before) :
                  /\ classifiedDays[j].date = before[j].date
                  /\ before[j].date \notin suspects => classifiedDays[j] = before[j]
                  /\ classifiedDays[j].type # before[j].type =>
                        before[j].type = "normal" /\ classifiedDays[j].type = "sauna"

\* Of two candidates the first has become a sauna day and the second has
\* been inspected and left normal, while an away day of 100 kWh was not
\* inspected.
C29_Witness ==
    /\ pc = "build"
    /\ DOMAIN fetched = { 66, 70 }
    /\ \E j \in 1..Len(classifiedDays) :
          /\ classifiedDays[j].date = 66
          /\ classifiedDays[j].type = "sauna"
          /\ "saunaDetected" \in DOMAIN classifiedDays[j]
    /\ \E j \in 1..Len(classifiedDays) :
          /\ classifiedDays[j].date = 70
          /\ classifiedDays[j].type = "normal"
    /\ \E j \in 1..Len(classifiedDays) :
          /\ classifiedDays[j].date = 62
          /\ classifiedDays[j].type = "out-of-town"
          /\ classifiedDays[j].homeKwh = 100000

=============================================================================
